---------------------------- MODULE Spec2Model ----------------------------
(***************************************************************************)
(* State-machine model of the documentation system:                        *)
(*   src/core/doc_system.py  CodeAnalyzer, SemanticIndexer,                *)
(*                           DocumentationSystem                           *)
(*   src/scripts/watch.py    DocumentationWatcher, WatcherManager          *)
(*   src/utils.py            should_ignore_path and the ignore table       *)
(*   src/core/js_analyzer.py JavaScriptAnalyzer (as process_file uses it)  *)
(*                                                                         *)
(* A path string is the sequence of its segments as written by the caller  *)
(* (<<"/", "proj", "src", ".", "a.py">> is "/proj/src/./a.py").  A file's  *)
(* content is the sequence of its source lines, each line one token.       *)
(***************************************************************************)
EXTENDS Naturals, Integers, Sequences, FiniteSets, TLC

VARIABLES
    fs,                 \* file system: normalised path -> [present, content]
    now,                \* wall clock in seconds (time.time / datetime.now)
    metadata,           \* DocumentationSystem.metadata: path string -> record
    disk,               \* docs/file_metadata.json: [present, text]
    file_collection,    \* chroma collection "file_overviews": set of documents
    element_collection, \* chroma collection "code_elements": set of documents
    docs,               \* docs/files/<stem>.md: stem -> rendered analysis
    errors,             \* logger.error records written so far
    last_ret,           \* how the last process_file call ended
    edits,              \* number of file modifications made so far
    last_event_time,    \* DocumentationWatcher.last_event_time
    pending_files,      \* DocumentationWatcher.pending_files
    evlog,              \* history: filesystem events delivered to the watcher
    dispatched,         \* history: process_file calls made by the watcher
    threads,            \* the watcher's two threads: where each one stands
    ctor,               \* DocumentationSystem.__init__: "new", "ready", "raised"
    ollama_available,   \* LLMAnalyzer.ollama_available, set once by __init__
    batch,              \* process_project: state of the running batch
    tasks,              \* process_project: one record per submitted file
    call                \* the last call a client made: operation, input, result

sysvars   == <<metadata, disk, file_collection, element_collection, docs>>
watchvars == <<last_event_time, pending_files, evlog, dispatched, threads>>
batchvars == <<batch, tasks>>
vars == <<fs, now, metadata, disk, file_collection, element_collection, docs,
          errors, last_ret, edits, last_event_time, pending_files, evlog,
          dispatched, threads, ctor, ollama_available, batch, tasks, call>>

\* no client call made yet
NoCall == [op |-> "none"]

\* WatcherManager.start before observer.start(): the observer thread
\* delivers no callback, the main thread is in time.sleep(1)
ThreadsAtRest == [observer |-> [pc |-> "idle"], main |-> [pc |-> "sleep"]]

---------------------------------------------------------------------------
(* Bounds of the model.                                                    *)

MaxLines == 2

MaxEdits == 1

---------------------------------------------------------------------------
(* Strings.                                                                *)

Char(s, i) == SubSeq(s, i, i)

StartsWith(s, p) == Len(p) <= Len(s) /\ SubSeq(s, 1, Len(p)) = p

EndsWith(s, p) ==
    Len(p) <= Len(s) /\ SubSeq(s, Len(s) - Len(p) + 1, Len(s)) = p

Contains(s, p) ==
    \E i \in 1..(Len(s) + 1) :
        i + Len(p) - 1 <= Len(s) /\ SubSeq(s, i, i + Len(p) - 1) = p

UpperChars == "ABCDEFGHIJKLMNOPQRSTUVWXYZ"

LowerChars == "abcdefghijklmnopqrstuvwxyz"

LowerChar(c) ==
    IF \E i \in 1..Len(UpperChars) : Char(UpperChars, i) = c
    THEN Char(LowerChars, CHOOSE i \in 1..Len(UpperChars) : Char(UpperChars, i) = c)
    ELSE c

RECURSIVE Lower(_)
Lower(s) == IF s = "" THEN "" ELSE LowerChar(Char(s, 1)) \o Lower(SubSeq(s, 2, Len(s)))

\* fnmatch.fnmatch for the patterns of the ignore table: '*' matches any run
\* of characters, every other character matches itself.
RECURSIVE FnMatch(_, _)
FnMatch(s, pat) ==
    IF pat = "" THEN s = ""
    ELSE IF Char(pat, 1) = "*"
         THEN \E k \in 0..Len(s) :
                  FnMatch(SubSeq(s, k + 1, Len(s)), SubSeq(pat, 2, Len(pat)))
         ELSE /\ s # ""
              /\ Char(s, 1) = Char(pat, 1)
              /\ FnMatch(SubSeq(s, 2, Len(s)), SubSeq(pat, 2, Len(pat)))

---------------------------------------------------------------------------
(* Paths (pathlib.Path).                                                   *)

\* str(Path(p)): pathlib drops "." and empty segments, keeps everything else.
PathStr(p) == SelectSeq(p, LAMBDA seg : seg # "." /\ seg # "")

\* Path(p).parts
PathParts(p) == PathStr(p)

PathName(p) == LET q == PathStr(p) IN IF q = <<>> THEN "" ELSE q[Len(q)]

LastDot(name) ==
    LET ds == {i \in 1..Len(name) : Char(name, i) = "."}
    IN  IF ds = {} THEN 0 ELSE CHOOSE i \in ds : \A j \in ds : j <= i

\* Path(p).suffix: from the last dot of the final segment, when that dot is
\* neither the first nor the last character.
PathSuffix(p) ==
    LET name == PathName(p)
        i    == LastDot(name)
    IN  IF i > 1 /\ i < Len(name) THEN SubSeq(name, i, Len(name)) ELSE ""

\* Path(p).stem
PathStem(p) ==
    LET name == PathName(p)
        i    == LastDot(name)
    IN  IF i > 1 /\ i < Len(name) THEN SubSeq(name, 1, i - 1) ELSE name

IsPrefixSeq(r, q) == Len(r) <= Len(q) /\ SubSeq(q, 1, Len(r)) = r

\* Path(p).relative_to(root) raises ValueError unless root's parts lead p's.
RelativeToRaises(p, root) == ~IsPrefixSeq(PathStr(root), PathStr(p))

RelativeTo(p, root) == SubSeq(PathStr(p), Len(PathStr(root)) + 1, Len(PathStr(p)))

\* the project root, resolved (DocumentationSystem.project_root)
project_root == <<"/", "proj">>

\* the path strings callers hand to the system
P_A     == <<"/", "proj", "src", "a.py">>
P_A_DOT == <<"/", "proj", "src", ".", "a.py">>
P_TXT   == <<"/", "proj", "src", "notes.txt">>
P_VENV  == <<"/", "proj", "venv", "a.py">>
P_LOG   == <<"/", "proj", "src", "logger.py">>
P_B     == <<"/", "proj", "lib", "b.py">>
P_TS    == <<"/", "proj", "src", "app.ts">>

PathStrings == {P_A, P_A_DOT, P_TXT, P_VENV, P_LOG}

Files == {PathStr(p) : p \in PathStrings}

---------------------------------------------------------------------------
(* Ignore table (src/utils.py).                                            *)

\* get_comprehensive_ignore_patterns()
get_comprehensive_ignore_patterns == {
    ".env", ".env.*", "*.env", "env", ".envrc", "secrets", ".secrets",
    "*.key", "*.pem", "*.crt", "*.cer", "*.p12", "*.pfx", "credentials",
    "credentials.json", "token.json", "__pycache__", "*.pyc", "*.pyo",
    "*.pyd", ".Python", "pip-log.txt", "pip-delete-this-directory.txt",
    "*.so", "*.dylib", "*.dll", "venv", ".venv", "ENV", "env.bak",
    "venv.bak", "virtualenv", "pyenv", ".python-version", "Pipenv",
    "conda-env", "miniconda", "anaconda", "*_venv", "venv_*",
    ".virtualenv", "virtualenvs", "node_modules", ".npm", ".yarn",
    ".pnp.js", ".pnp", "npm-debug.log*", "yarn-debug.log*",
    "yarn-error.log*", ".next", ".nuxt", ".cache", ".parcel-cache", "dist",
    "build", "out", ".webpack", ".pytest_cache", ".coverage", "htmlcov",
    ".tox", ".hypothesis", "coverage", "*.cover", ".nyc_output",
    "test-results", ".vscode", ".idea", "*.swp", "*.swo", "*~",
    ".DS_Store", "*.sublime-*", ".project", ".classpath", "*.iml",
    ".settings", "nbproject", ".netbeans", ".eclipse", "*.egg-info",
    "*.egg", "wheels", "target", "bin", "obj", "*.class", "*.jar",
    "_build", ".gradle", ".mvn", "docs/_build", "site", "_site",
    "gh-pages", ".git", ".svn", ".hg", ".bzr", "_darcs", ".fossil", "*.db",
    "*.sqlite", "*.sqlite3", "*.mongodb", "database", "databases",
    "db_data", "postgres_data", "*.rdb", "dump.rdb", "*.log", "logs",
    "log", "*.tmp", "tmp", "temp", "*.bak", "*.backup", "*.old", "*.orig",
    "*.pid", "*.seed", "*.pid.lock", "autodoc_docs", "autodoc_vector_db",
    "autodoc_venv", "autodoc", ".autodoc", "cache", ".mypy_cache",
    ".ruff_cache", ".nox", ".pants.d", "Thumbs.db", "desktop.ini",
    "$RECYCLE.BIN", "*.lnk", "System Volume Information",
    "bower_components", "jspm_packages", "vendor", "*_secret*",
    "*_private*", "*.secret", "*.private", "id_rsa*", "id_dsa*",
    "id_ecdsa*", "id_ed25519*", "*.ppk", "known_hosts", "authorized_keys"
    }

\* should_ignore_path(path, ignore_patterns): exact match (also case-folded),
\* fnmatch for patterns holding '*', or the segment starts with the pattern.
should_ignore_path(path, ignore_patterns) ==
    LET path_lower == Lower(path)
    IN  \E pattern \in ignore_patterns :
            \/ path = pattern
            \/ path_lower = Lower(pattern)
            \/ /\ Contains(pattern, "*")
               /\ \/ FnMatch(path, pattern)
                  \/ FnMatch(path_lower, Lower(pattern))
            \/ StartsWith(path, pattern)
            \/ StartsWith(path_lower, Lower(pattern))

\* the segments should_process_file tests, tabulated once
IgnoredSegments ==
    {seg \in UNION {{PathParts(p)[i] : i \in 1..Len(PathParts(p))} : p \in PathStrings \cup {P_B}} :
        should_ignore_path(seg, get_comprehensive_ignore_patterns)}

supported_extensions == {".py", ".js", ".jsx", ".ts", ".tsx"}

---------------------------------------------------------------------------
(* File contents.  A content is the sequence of the file's lines; a line   *)
(* is one of the tokens below.                                             *)

Tokens == {
    "def_f",      \* def f(): pass
    "def_g",      \* def g(): pass
    "class_f",    \* class f: pass
    "blank",      \* an empty line
    "bad",        \* a line ast.parse rejects
    "nonutf8"     \* a line holding bytes that are not UTF-8
    }

Contents == UNION {[1..n -> Tokens] : n \in 0..MaxLines}

\* further lines the analyzer tells apart
MoreTokens == {
    "route_f",    \* @app.get('/f') and def f(): pass, taken as one line
    "model_f",    \* class f(Base): pass
    "complex_f"   \* def f(x): return x and x and ... with 11 operands
    }

\* the lines of a JavaScript or TypeScript file of the model
JsLines == <<
    "function f() {",
    "function App() {",
    "export const App = () => {",
    "class f {",
    "interface f {",
    "type f = x",
    "if (a && b) {",
    "}" >>

\* declarations of the web and model frameworks the analyzer looks for
FrameworkTokens == {
    "router_f",     \* @router.post('/f') and def f(): pass
    "flask_f",      \* @app.route('/f') and def f(): pass
    "blueprint_f",  \* @blueprint.route('/f', methods=['POST']) and def f(): pass
    "pydantic_f",   \* class f(BaseModel): pass
    "django_f",     \* class f(models.Model): pass
    "mixin_f",      \* class f(ModelMixin): pass
    "alias_f"       \* class f(PydanticModel): pass
    }

TokCode(t) ==
    CASE t = "def_f"   -> 1
      [] t = "def_g"   -> 2
      [] t = "class_f" -> 3
      [] t = "blank"   -> 4
      [] t = "bad"     -> 5
      [] t = "nonutf8" -> 6
      [] t = "route_f" -> 7
      [] t = "model_f" -> 8
      [] t = "complex_f" -> 9
      [] t = "router_f" -> 18
      [] t = "flask_f" -> 19
      [] t = "blueprint_f" -> 20
      [] t = "pydantic_f" -> 21
      [] t = "django_f" -> 22
      [] t = "mixin_f" -> 23
      [] t = "alias_f" -> 24
      [] OTHER -> 9 + CHOOSE i \in 1..Len(JsLines) : JsLines[i] = t

\* hashlib.md5(content.encode()).hexdigest(): a digest that tells any two
\* contents of the model apart
RECURSIVE Md5(_)
Md5(content) ==
    IF content = <<>> THEN 0 ELSE TokCode(Head(content)) + 32 * Md5(Tail(content))

\* open(path, 'r', encoding='utf-8').read() raises for a missing file
\* (FileNotFoundError) and for bytes that do not decode (UnicodeDecodeError)
ReadRaises(file) ==
    \/ ~file.present
    \/ \E i \in 1..Len(file.content) : file.content[i] = "nonutf8"

\* ast.parse(content) raises SyntaxError
ParseRaises(content) == \E i \in 1..Len(content) : content[i] = "bad"

FileOf(file_path, files) == files[PathStr(file_path)]

---------------------------------------------------------------------------
(* CodeAnalyzer (src/core/doc_system.py).                                  *)

None == [none |-> TRUE]

RouteTokens == {"route_f", "router_f", "flask_f", "blueprint_f"}

ModelTokens == {"model_f", "pydantic_f", "django_f", "mixin_f", "alias_f"}

IsDecl(tok) ==
    tok \in {"def_f", "def_g", "class_f", "complex_f"} \cup RouteTokens \cup ModelTokens

DeclName(tok) == IF tok = "def_g" THEN "g" ELSE "f"

DeclType(tok) == IF tok \in {"class_f"} \cup ModelTokens THEN "class" ELSE "function"

\* an ast.Call on an attribute: object.attr(args, keywords); args holds the
\* repr of each positional constant, keywords the text of each keyword
AstCall(object, attr, args, keywords) ==
    [object |-> object, attr |-> attr, args |-> args, keywords |-> keywords]

\* node.decorator_list
decorator_list(tok) ==
    CASE tok = "route_f"     -> <<AstCall("app", "get", <<"'/f'">>, <<>>)>>
      [] tok = "router_f"    -> <<AstCall("router", "post", <<"'/f'">>, <<>>)>>
      [] tok = "flask_f"     -> <<AstCall("app", "route", <<"'/f'">>, <<>>)>>
      [] tok = "blueprint_f" -> <<AstCall("blueprint", "route", <<"'/f'">>,
                                          <<"methods=['POST']">>)>>
      [] OTHER               -> <<>>

\* ', '.join(strings)
RECURSIVE JoinComma(_)
JoinComma(strings) ==
    IF strings = <<>> THEN ""
    ELSE IF Len(strings) = 1 THEN strings[1]
    ELSE strings[1] \o ", " \o JoinComma(Tail(strings))

\* _node_to_string(node) of a call: f"{func_str}({args})" over node.args;
\* node.keywords are not rendered
node_to_string(node) ==
    node.object \o "." \o node.attr \o "(" \o JoinComma(node.args) \o ")"

\* _decorator_to_string(decorator)
decorator_to_string(decorator) == "@" \o node_to_string(decorator)

RECURSIVE DecoratorStrings(_)
DecoratorStrings(decorators) ==
    IF decorators = <<>> THEN <<>>
    ELSE <<decorator_to_string(Head(decorators))>> \o DecoratorStrings(Tail(decorators))

\* [_decorator_to_string(d) for d in node.decorator_list]
Decorators(tok) == DecoratorStrings(decorator_list(tok))

\* [_node_to_string(base) for base in node.bases]
Bases(tok) ==
    CASE tok = "model_f"    -> <<"Base">>
      [] tok = "pydantic_f" -> <<"BaseModel">>
      [] tok = "django_f"   -> <<"models.Model">>
      [] tok = "mixin_f"    -> <<"ModelMixin">>
      [] tok = "alias_f"    -> <<"PydanticModel">>
      [] OTHER              -> <<>>

\* the statements ast.walk meets under a declaration: each one its kind and
\* the operand counts of the boolean chains (ast.BoolOp) it holds
Statement(kind, chains) == [kind |-> kind, chains |-> chains]

Body(tok) ==
    IF tok = "complex_f" THEN <<Statement("return", <<11>>)>> ELSE <<>>

RECURSIVE SumChains(_)
SumChains(chains) ==
    IF chains = <<>> THEN 0 ELSE (Head(chains) - 1) + SumChains(Tail(chains))

\* _calculate_complexity(node): 1, plus one per if / while / for / except
\* and len(values) - 1 per boolean chain
RECURSIVE calculate_complexity(_)
calculate_complexity(node) ==
    IF node = <<>> THEN 1
    ELSE (IF Head(node).kind \in {"if", "while", "for", "except"} THEN 1 ELSE 0)
         + SumChains(Head(node).chains)
         + calculate_complexity(Tail(node))

\* _analyze_function / _analyze_class
analyze_decl(tok, line, file_path) ==
    [name             |-> DeclName(tok),
     type             |-> DeclType(tok),
     file_path        |-> file_path,
     line_number      |-> line,
     docstring        |-> "",
     complexity_score |-> calculate_complexity(Body(tok)),
     dependencies     |-> <<>>,
     decorators       |-> Decorators(tok)]

\* _extract_elements(tree, file_path): one element per def / class, in
\* source order
RECURSIVE extract_from(_, _, _)
extract_from(content, line, file_path) ==
    IF line > Len(content) THEN <<>>
    ELSE (IF IsDecl(content[line])
          THEN <<analyze_decl(content[line], line, file_path)>>
          ELSE <<>>) \o extract_from(content, line + 1, file_path)

extract_elements(content, file_path) == extract_from(content, 1, file_path)

UpperChar(c) ==
    IF \E i \in 1..26 : Char(LowerChars, i) = c
    THEN Char(UpperChars, CHOOSE i \in 1..26 : Char(LowerChars, i) = c)
    ELSE c

\* str.upper()
RECURSIVE Upper(_)
Upper(s) == IF s = "" THEN "" ELSE UpperChar(Char(s, 1)) \o Upper(SubSeq(s, 2, Len(s)))

\* the least of a set of positions
Least(positions) == CHOOSE i \in positions : \A j \in positions : i <= j

\* the text from position i on
From(s, i) == SubSeq(s, i, Len(s))

IsQuote(c) == c = "'" \/ c = "\""

\* [^"']* at the head of the text: the longest run without a quote
RECURSIVE Unquoted(_)
Unquoted(s) ==
    IF s = "" \/ IsQuote(Char(s, 1)) THEN ""
    ELSE Char(s, 1) \o Unquoted(From(s, 2))

\* \(["']([^"']+)["'] at the head of the text
QuotedArgMatches(s) ==
    /\ StartsWith(s, "(")
    /\ Len(s) >= 2
    /\ IsQuote(Char(s, 2))
    /\ Unquoted(From(s, 3)) # ""
    /\ Len(s) > 2 + Len(Unquoted(From(s, 3)))

\* group 1 of it
QuotedArg(s) == Unquoted(From(s, 3))

\* (?:app|router)\. or (?:app|blueprint)\. after an @ at the head of the
\* text: the length of the match, 0 if none
ObjectPrefix(s, objects) ==
    IF \E o \in objects : StartsWith(s, "@" \o o \o ".")
    THEN Len("@" \o (CHOOSE o \in objects : StartsWith(s, "@" \o o \o ".")) \o ".")
    ELSE 0

\* the words of the alternation that match at the head of the text, each
\* followed by the quoted argument
WordsAt(s, words) ==
    {w \in words : StartsWith(s, w) /\ QuotedArgMatches(From(s, Len(w) + 1))}

\* the pattern @(?:objects)\.(words)\(["']([^"']+)["'] at the head of the text
RouteAt(s, objects, words) ==
    /\ ObjectPrefix(s, objects) > 0
    /\ WordsAt(From(s, ObjectPrefix(s, objects) + 1), words) # {}

\* re.search of the pattern: the positions where it matches
RoutePositions(s, objects, words) ==
    {i \in 1..Len(s) : Char(s, i) = "@" /\ RouteAt(From(s, i), objects, words)}

\* groups 1 and 2 of the match at the head of the text
RouteWord(s, objects, words) ==
    CHOOSE w \in WordsAt(From(s, ObjectPrefix(s, objects) + 1), words) : TRUE

RoutePath(s, objects, words) ==
    QuotedArg(From(s, ObjectPrefix(s, objects) + 1
                          + Len(RouteWord(s, objects, words))))

FastapiObjects == {"app", "router"}

FastapiVerbs == {"get", "post", "put", "delete", "patch"}

\* the record _parse_fastapi_route returns for the match that starts the
\* text
FastapiRoute(match, handler, line) ==
    [method      |-> Upper(RouteWord(match, FastapiObjects, FastapiVerbs)),
     path        |-> RoutePath(match, FastapiObjects, FastapiVerbs),
     handler     |-> handler,
     line_number |-> line]

\* if match: return {...}; return None
FastapiRouteAt(decorator_str, positions, handler, line) ==
    IF positions = {} THEN None
    ELSE FastapiRoute(From(decorator_str, Least(positions)), handler, line)

\* _parse_fastapi_route(decorator_str, node): None when the pattern
\* @(?:app|router)\.(get|post|put|delete|patch)\(["']([^"']+)["'] is not found
parse_fastapi_route(decorator_str, handler, line) ==
    FastapiRouteAt(decorator_str,
                   RoutePositions(decorator_str, FastapiObjects, FastapiVerbs),
                   handler, line)

\* the text before the first occurrence of the character, all of it if none
RECURSIVE Before(_, _)
Before(s, c) ==
    IF s = "" \/ Char(s, 1) = c THEN "" ELSE Char(s, 1) \o Before(From(s, 2), c)

\* methods=\[([^\]]+)\] at the head of the text
MethodsAt(s) ==
    /\ StartsWith(s, "methods=[")
    /\ Before(From(s, 10), "]") # ""
    /\ Len(s) > 9 + Len(Before(From(s, 10), "]"))

MethodsPositions(s) == {i \in 1..Len(s) : Char(s, i) = "m" /\ MethodsAt(From(s, i))}

\* str.split(',')
RECURSIVE Split(_)
Split(s) ==
    IF Len(Before(s, ",")) = Len(s) THEN <<s>>
    ELSE <<Before(s, ",")>> \o Split(From(s, Len(Before(s, ",")) + 2))

\* str.strip()
RECURSIVE StripSpaces(_)
StripSpaces(s) ==
    IF StartsWith(s, " ") THEN StripSpaces(From(s, 2))
    ELSE IF EndsWith(s, " ") THEN StripSpaces(SubSeq(s, 1, Len(s) - 1))
    ELSE s

\* str.strip('"\'')
RECURSIVE StripQuotes(_)
StripQuotes(s) ==
    IF s # "" /\ IsQuote(Char(s, 1)) THEN StripQuotes(From(s, 2))
    ELSE IF s # "" /\ IsQuote(Char(s, Len(s))) THEN StripQuotes(SubSeq(s, 1, Len(s) - 1))
    ELSE s

\* m.strip().strip('"\'')
StripMethod(m) == StripQuotes(StripSpaces(m))

RECURSIVE StripMethods(_)
StripMethods(ms) ==
    IF ms = <<>> THEN <<>> ELSE <<StripMethod(Head(ms))>> \o StripMethods(Tail(ms))

\* methods of _parse_flask_route: ['GET'] unless methods=[...] is found in
\* the decorator string
FlaskMethodsAt(decorator_str, positions) ==
    IF positions = {}
    THEN <<"GET">>
    ELSE StripMethods(Split(Before(From(decorator_str, Least(positions) + 9), "]")))

flask_methods(decorator_str) ==
    FlaskMethodsAt(decorator_str, MethodsPositions(decorator_str))

FlaskObjects == {"app", "blueprint"}

\* if match: return {...}; return None
FlaskRouteAt(decorator_str, positions, handler, line) ==
    IF positions = {} THEN None
    ELSE [method      |-> flask_methods(decorator_str),
          path        |-> RoutePath(From(decorator_str, Least(positions)),
                                    FlaskObjects, {"route"}),
          handler     |-> handler,
          line_number |-> line]

\* _parse_flask_route(decorator_str, node): None when the pattern
\* @(?:app|blueprint)\.route\(["']([^"']+)["'] is not found
parse_flask_route(decorator_str, handler, line) ==
    FlaskRouteAt(decorator_str,
                 RoutePositions(decorator_str, FlaskObjects, {"route"}),
                 handler, line)

\* routes.append(route_info) if route_info
Appended(route_info) == IF route_info = None THEN <<>> ELSE <<route_info>>

\* the body of the loop over node.decorator_list: the FastAPI patterns,
\* elif the Flask patterns
RECURSIVE decorator_routes(_, _, _)
decorator_routes(decorators, handler, line) ==
    IF decorators = <<>> THEN <<>>
    ELSE (IF Contains(Head(decorators), "@app.") \/ Contains(Head(decorators), "@router.")
          THEN Appended(parse_fastapi_route(Head(decorators), handler, line))
          ELSE IF \/ Contains(Head(decorators), "@app.route")
                  \/ Contains(Head(decorators), "@blueprint.route")
          THEN Appended(parse_flask_route(Head(decorators), handler, line))
          ELSE <<>>) \o decorator_routes(Tail(decorators), handler, line)

\* _detect_api_routes(content, tree): the routes of the decorators of every
\* function
RECURSIVE detect_api_routes(_, _)
detect_api_routes(content, line) ==
    IF line > Len(content) THEN <<>>
    ELSE (IF IsDecl(content[line]) /\ DeclType(content[line]) = "function"
          THEN decorator_routes(Decorators(content[line]), DeclName(content[line]), line)
          ELSE <<>>) \o detect_api_routes(content, line + 1)

\* _identify_model_type(base_str)
identify_model_type(base_str) ==
    IF Contains(Lower(base_str), "django") \/ Contains(base_str, "models.Model")
    THEN "django"
    ELSE IF Contains(Lower(base_str), "sqlalchemy") \/ Contains(base_str, "Base")
    THEN "sqlalchemy"
    ELSE IF Contains(Lower(base_str), "pydantic") \/ Contains(base_str, "BaseModel")
    THEN "pydantic"
    ELSE "unknown"

\* the body of the loop over node.bases: one record per base whose string
\* holds 'Model' or 'Base'
RECURSIVE base_models(_, _, _)
base_models(bases, name, line) ==
    IF bases = <<>> THEN <<>>
    ELSE (IF Contains(Head(bases), "Model") \/ Contains(Head(bases), "Base")
          THEN <<[name |-> name, type |-> identify_model_type(Head(bases)),
                  line_number |-> line]>>
          ELSE <<>>) \o base_models(Tail(bases), name, line)

\* _detect_database_models(tree)
RECURSIVE detect_database_models(_, _)
detect_database_models(content, line) ==
    IF line > Len(content) THEN <<>>
    ELSE (IF IsDecl(content[line]) /\ DeclType(content[line]) = "class"
          THEN base_models(Bases(content[line]), DeclName(content[line]), line)
          ELSE <<>>) \o detect_database_models(content, line + 1)

CountType(elements, type) ==
    Cardinality({i \in 1..Len(elements) : elements[i].type = type})

\* _infer_purpose with the file-name rules ahead of the routes and models
infer_purpose_by_name(file_path, elements, api_routes, db_models) ==
    IF Contains(PathStem(file_path), "test_") \/ Contains(PathStem(file_path), "_test")
    THEN "Test suite for unit/integration testing"
    ELSE IF api_routes # <<>>
    THEN "API endpoint definitions with " \o ToString(Len(api_routes)) \o " routes"
    ELSE IF db_models # <<>>
    THEN "Database models with " \o ToString(Len(db_models)) \o " model definitions"
    ELSE "Python module"

\* _infer_purpose(file_path, elements, api_routes, db_models)
infer_purpose(file_path, elements, api_routes, db_models) ==
    LET file_name == PathStem(file_path)
    IN  IF api_routes # <<>>
        THEN "API endpoint definitions with " \o ToString(Len(api_routes)) \o " routes"
        ELSE IF db_models # <<>>
        THEN "Database models with " \o ToString(Len(db_models)) \o " model definitions"
        ELSE IF Contains(file_name, "test_") \/ Contains(file_name, "_test")
        THEN "Test suite for unit/integration testing"
        ELSE IF Contains(file_name, "config") \/ Contains(file_name, "settings")
        THEN "Configuration and settings management"
        ELSE IF Contains(file_name, "util") \/ Contains(file_name, "helper")
        THEN "Utility functions and helper methods"
        ELSE IF elements # <<>>
        THEN "Module with " \o ToString(CountType(elements, "class")) \o " classes and "
                 \o ToString(CountType(elements, "function")) \o " functions"
        ELSE "Python module"

\* the FileAnalysis analyze_file builds from what it extracted
FileAnalysis(file_path, content, elements, routes, models, t) ==
    [file_path        |-> file_path,
     purpose          |-> infer_purpose(file_path, elements, routes, models),
     elements         |-> elements,
     imports          |-> <<>>,
     api_routes       |-> routes,
     database_models  |-> models,
     content_hash     |-> Md5(content),
     last_analyzed    |-> t,
     breaking_changes |-> <<>>]

\* analyze_file past the read and the parse: elements, routes, models and
\* the purpose inferred from them
analyze_content(file_path, content, t) ==
    FileAnalysis(file_path, content,
                 extract_elements(content, file_path),
                 detect_api_routes(content, 1),
                 detect_database_models(content, 1),
                 t)

\* analyze_file(file_path): None when reading or parsing raises
analyze_file(file_path, files, t) ==
    IF ReadRaises(FileOf(file_path, files))
           \/ ParseRaises(FileOf(file_path, files).content)
    THEN None
    ELSE analyze_content(file_path, FileOf(file_path, files).content, t)

---------------------------------------------------------------------------
(* LLMAnalyzer.                                                            *)

\* what the LLM collaborator does on one call: nothing when _check_ollama
\* found it unavailable at startup, else generate raises or gives insights
LlmOutcomes(available) == IF available THEN {"raises", "insights"} ELSE {"unavailable"}

\* _fallback_analysis(file_analysis): heuristic breaking changes
fallback_analysis(analysis) ==
    LET complex == {i \in 1..Len(analysis.elements) :
                        analysis.elements[i].complexity_score > 10}
    IN  [analysis EXCEPT !.breaking_changes =
            (IF analysis.api_routes # <<>>
             THEN <<"Modifying API routes may break client applications">> ELSE <<>>)
            \o (IF analysis.database_models # <<>>
                THEN <<"Changing database models requires migration">> ELSE <<>>)
            \o (IF complex # {}
                THEN <<"High complexity functions">> ELSE <<>>)]

\* analyze_with_llm without its except clause: a failing generate call
\* leaves the analysis as the analyzer made it
analyze_with_llm_unguarded(analysis, llm) ==
    IF llm = "unavailable"
    THEN fallback_analysis(analysis)
    ELSE IF llm = "raises"
    THEN analysis
    ELSE [analysis EXCEPT !.breaking_changes = <<"llm">>,
                          !.purpose = "LLM: " \o analysis.purpose]

\* analyze_with_llm(file_analysis, content)
analyze_with_llm(analysis, llm) ==
    IF llm \in {"unavailable", "raises"}
    THEN fallback_analysis(analysis)
    ELSE [analysis EXCEPT !.breaking_changes = <<"llm">>,
                          !.purpose = "LLM: " \o analysis.purpose]

---------------------------------------------------------------------------
(* SemanticIndexer.  A collection is the set of its documents.             *)

\* collection.add in place of collection.upsert: a second document under an
\* id already stored is kept next to the first
UpsertAsAdd(collection, doc) == collection \cup {doc}

\* collection.upsert(ids=[id], documents=[text], metadatas=[metadata]):
\* replaces the document stored under the id, or adds it
Upsert(collection, doc) == {d \in collection : d.id # doc.id} \cup {doc}

FileDoc(analysis) ==
    [id       |-> analysis.file_path,
     text     |-> <<analysis.purpose, analysis.imports>>,
     metadata |-> [file_path     |-> analysis.file_path,
                   purpose       |-> analysis.purpose,
                   api_routes    |-> Len(analysis.api_routes),
                   models        |-> Len(analysis.database_models),
                   last_analyzed |-> analysis.last_analyzed]]

\* element_id = f"{file_path}::{name}::{line_number}"
ElementId(element) == <<element.file_path, element.name, element.line_number>>

ElementDoc(element) ==
    [id       |-> ElementId(element),
     text     |-> <<element.type, element.name, element.docstring,
                    element.dependencies, element.decorators>>,
     metadata |-> [name          |-> element.name,
                   type          |-> element.type,
                   file_path     |-> element.file_path,
                   line_number   |-> element.line_number,
                   complexity    |-> element.complexity_score,
                   has_docstring |-> element.docstring # ""]]

\* _index_element(element)
index_element(collection, element) == Upsert(collection, ElementDoc(element))

RECURSIVE index_elements(_, _)
index_elements(collection, elements) ==
    IF elements = <<>> THEN collection
    ELSE index_elements(index_element(collection, Head(elements)), Tail(elements))

\* index_file(file_analysis): the file overview, then every element
index_file(idx, analysis) ==
    [files    |-> Upsert(idx.files, FileDoc(analysis)),
     elements |-> index_elements(idx.elements, analysis.elements)]

---------------------------------------------------------------------------
(* Persisted metadata: docs/file_metadata.json as a token text.            *)

LBrace == [t |-> "{", k |-> <<>>, v |-> None]
RBrace == [t |-> "}", k |-> <<>>, v |-> None]
LBracket == [t |-> "[", k |-> <<>>, v |-> None]
RBracket == [t |-> "]", k |-> <<>>, v |-> None]
Pair(key, value) == [t |-> "pair", k |-> key, v |-> value]

RECURSIVE DumpPairs(_, _)
DumpPairs(map, keys) ==
    IF keys = {} THEN <<>>
    ELSE LET key == CHOOSE x \in keys : TRUE
         IN  <<Pair(key, map[key])>> \o DumpPairs(map, keys \ {key})

\* json.dump(self.metadata, f, indent=2): the text of the whole map
JsonDump(map) == <<LBrace>> \o DumpPairs(map, DOMAIN map) \o <<RBrace>>

\* json.load raises JSONDecodeError on a text that is no JSON value
JsonLoadRaises(text) ==
    ~ \/ /\ Len(text) >= 2
         /\ text[1] = LBrace
         /\ text[Len(text)] = RBrace
         /\ \A i \in 2..(Len(text) - 1) : text[i].t = "pair"
      \/ text = <<LBracket, RBracket>>

JsonIsMap(text) == ~JsonLoadRaises(text) /\ text[1] = LBrace

\* json.load(f) of a JSON object: the last pair of a key wins
JsonLoadMap(text) ==
    LET keys == {text[i].k : i \in 2..(Len(text) - 1)}
    IN  [key \in keys |->
            text[CHOOSE i \in 2..(Len(text) - 1) :
                    /\ text[i].k = key
                    /\ \A j \in 2..(Len(text) - 1) : text[j].k = key => j <= i].v]

EmptyMap == [key \in {} |-> None]

\* what json.load returns for a JSON list: a list, not a map
JsonList == [list |-> <<>>]

---------------------------------------------------------------------------
(* DocumentationSystem.                                                    *)

\* _load_metadata(): raises what json.load raises; {} for a missing file
load_metadata_raises(d) == d.present /\ JsonLoadRaises(d.text)

load_metadata(d) ==
    IF d.present
    THEN (IF JsonIsMap(d.text) THEN JsonLoadMap(d.text) ELSE JsonList)
    ELSE EmptyMap

\* _save_metadata()
save_metadata(map) == [present |-> TRUE, text |-> JsonDump(map)]

\* the part of should_process_file before the metadata lookup
Eligible(file_path) ==
    /\ PathSuffix(file_path) \in supported_extensions
    /\ \A i \in 1..Len(PathParts(file_path)) :
           PathParts(file_path)[i] \notin IgnoredSegments

\* the key should_process_file looks the record up under: str(Path(file_path))
LookupKey(file_path) == PathStr(file_path)

\* the key process_file stores the record under: file_path as given
StoreKey(file_path) == file_path

\* should_process_file raises when a tracked file cannot be read
should_process_raises(file_path, md, files) ==
    /\ Eligible(file_path)
    /\ LookupKey(file_path) \in DOMAIN md
    /\ ReadRaises(FileOf(file_path, files))

\* should_process_file(file_path)
should_process_file(file_path, md, files) ==
    /\ Eligible(file_path)
    /\ \/ LookupKey(file_path) \notin DOMAIN md
       \/ md[LookupKey(file_path)].content_hash
              # Md5(FileOf(file_path, files).content)

MetadataRecord(analysis) ==
    [content_hash   |-> analysis.content_hash,
     last_analyzed  |-> analysis.last_analyzed,
     elements_count |-> Len(analysis.elements),
     purpose        |-> analysis.purpose]

\* the documentation file of an analysis: docs/files/<stem>.md
DocName(analysis) == PathStem(RelativeTo(analysis.file_path, project_root))

RenderDoc(analysis) ==
    [file_path    |-> analysis.file_path,
     purpose      |-> analysis.purpose,
     content_hash |-> analysis.content_hash,
     elements     |-> Len(analysis.elements)]

\* _generate_documentation(analysis)
generate_documentation_raises(analysis) ==
    RelativeToRaises(analysis.file_path, project_root)

generate_documentation(d, analysis) ==
    (DocName(analysis) :> RenderDoc(analysis)) @@ d

(* JavaScriptAnalyzer (src/core/js_analyzer.py).  A JavaScript or           *)
(* TypeScript file is the sequence of its lines, each line its text.       *)

WordChars == UpperChars \o LowerChars \o "0123456789_"

IsWordChar(c) == \E i \in 1..Len(WordChars) : Char(WordChars, i) = c

IsUpperChar(c) == \E i \in 1..Len(UpperChars) : Char(UpperChars, i) = c

Drop(s, n) == SubSeq(s, n + 1, Len(s))

\* \s* at the head of the text
RECURSIVE JsSpace(_)
JsSpace(s) == IF StartsWith(s, " ") THEN JsSpace(Drop(s, 1)) ELSE s

\* keyword\s+ at the head of the text
JsKeyword(s, kw) == StartsWith(s, kw \o " ")

JsAfter(s, kw) == JsSpace(Drop(s, Len(kw)))

\* (?:keyword\s+)? at the head of the text
JsOpt(s, kw) == IF JsKeyword(s, kw) THEN JsAfter(s, kw) ELSE s

\* (\w+) at the head of the text: the longest run of word characters
RECURSIVE JsWord(_)
JsWord(s) ==
    IF s # "" /\ IsWordChar(Char(s, 1))
    THEN Char(s, 1) \o JsWord(Drop(s, 1))
    ELSE ""

\* \([^)]*\) at the head of the text: what follows it, or no match
JsParens(s) ==
    IF StartsWith(s, "(") /\ Contains(s, ")")
    THEN [ok   |-> TRUE,
          rest |-> Drop(s, CHOOSE i \in 1..Len(s) :
                              /\ Char(s, i) = ")"
                              /\ \A j \in 1..(i - 1) : Char(s, j) # ")")]
    ELSE [ok |-> FALSE, rest |-> ""]

\* keyword\s+(\w+) at the head of the text: the name, "" if no match
JsNamed(a, kw) == IF JsKeyword(a, kw) THEN JsWord(JsAfter(a, kw)) ELSE ""

\* r'^\s*(?:export\s+)?(?:async\s+)?function\s+(\w+)': the name, "" if no match
JsRegularFunction(line) ==
    JsNamed(JsOpt(JsOpt(JsSpace(line), "export"), "async"), "function")

\* \s*=\s*(?:async\s+)?\([^)]*\)\s*=> at the head of the text
JsArrowTail(c) ==
    /\ StartsWith(JsSpace(c), "=")
    /\ JsParens(JsOpt(JsSpace(Drop(JsSpace(c), 1)), "async")).ok
    /\ StartsWith(JsSpace(JsParens(JsOpt(JsSpace(Drop(JsSpace(c), 1)), "async")).rest),
                  "=>")

\* (\w+) and the tail of the arrow pattern at the head of the text
JsArrowAt(b) ==
    IF JsWord(b) # "" /\ JsArrowTail(Drop(b, Len(JsWord(b)))) THEN JsWord(b) ELSE ""

\* (?:const|let|var)\s+ and the rest of the arrow pattern
JsArrowDeclared(a) ==
    IF JsKeyword(a, "const") THEN JsArrowAt(JsAfter(a, "const"))
    ELSE IF JsKeyword(a, "let") THEN JsArrowAt(JsAfter(a, "let"))
    ELSE IF JsKeyword(a, "var") THEN JsArrowAt(JsAfter(a, "var"))
    ELSE ""

\* r'^\s*(?:export\s+)?(?:const|let|var)\s+(\w+)\s*=\s*(?:async\s+)?\([^)]*\)\s*=>'
JsArrowFunction(line) == JsArrowDeclared(JsOpt(JsSpace(line), "export"))

\* (\w+)\s*\([^)]*\)\s*\{ at the head of the text
JsMethodAt(a) ==
    IF /\ JsWord(a) # ""
       /\ JsParens(JsSpace(Drop(a, Len(JsWord(a))))).ok
       /\ StartsWith(JsSpace(JsParens(JsSpace(Drop(a, Len(JsWord(a))))).rest), "{")
    THEN JsWord(a) ELSE ""

\* r'^\s*(?:async\s+)?(\w+)\s*\([^)]*\)\s*\{': with the optional group taken,
\* and without it when that fails
JsMethod(line) ==
    IF JsMethodAt(JsOpt(JsSpace(line), "async")) # ""
    THEN JsMethodAt(JsOpt(JsSpace(line), "async"))
    ELSE JsMethodAt(JsSpace(line))

\* r'^\s*(?:export\s+)?(?:default\s+)?class\s+(\w+)'
JsClass(line) == JsNamed(JsOpt(JsOpt(JsSpace(line), "export"), "default"), "class")

\* r'^\s*(?:export\s+)?interface\s+(\w+)'
JsInterface(line) == JsNamed(JsOpt(JsSpace(line), "export"), "interface")

\* r'^\s*(?:export\s+)?type\s+(\w+)'
JsType(line) == JsNamed(JsOpt(JsSpace(line), "export"), "type")

\* ([A-Z]\w+): a capital and at least one more word character
JsCapitalized(name) == Len(name) >= 2 /\ IsUpperChar(Char(name, 1))

\* r'^\s*(?:export\s+)?(?:default\s+)?function\s+([A-Z]\w+)'
JsFunctionComponent(line) ==
    IF JsCapitalized(JsNamed(JsOpt(JsOpt(JsSpace(line), "export"), "default"),
                             "function"))
    THEN JsNamed(JsOpt(JsOpt(JsSpace(line), "export"), "default"), "function")
    ELSE ""

\* const\s+([A-Z]\w+)\s*= at the head of the text
JsConstAt(a) ==
    IF /\ JsCapitalized(JsNamed(a, "const"))
       /\ StartsWith(JsSpace(Drop(JsAfter(a, "const"), Len(JsNamed(a, "const")))), "=")
    THEN JsNamed(a, "const") ELSE ""

\* r'^\s*(?:export\s+)?const\s+([A-Z]\w+)\s*='
JsConstComponent(line) == JsConstAt(JsOpt(JsSpace(line), "export"))

\* str.count(needle): occurrences that do not overlap, from the left
RECURSIVE StrCount(_, _)
StrCount(s, needle) ==
    IF Len(s) < Len(needle) THEN 0
    ELSE IF StartsWith(s, needle)
         THEN 1 + StrCount(Drop(s, Len(needle)), needle)
         ELSE StrCount(Drop(s, 1), needle)

\* content.count(needle): no needle holds a line break
RECURSIVE ContentCount(_, _)
ContentCount(content, needle) ==
    IF content = <<>> THEN 0
    ELSE StrCount(Head(content), needle) + ContentCount(Tail(content), needle)

Min(a, b) == IF a <= b THEN a ELSE b

\* _calculate_complexity without its min(complexity, 20)
js_calculate_complexity_uncapped(content, start_line) ==
    1 + ContentCount(content, "if ") + ContentCount(content, "else if")
      + ContentCount(content, "switch ") + ContentCount(content, "for ")
      + ContentCount(content, "while ") + ContentCount(content, "catch ")
      + ContentCount(content, " ? ") + ContentCount(content, "&&")
      + ContentCount(content, "||")

\* JavaScriptAnalyzer._calculate_complexity(content, start_line): counted
\* over the whole file, whatever the line
js_calculate_complexity(content, start_line) ==
    Min(1 + ContentCount(content, "if ") + ContentCount(content, "else if")
          + ContentCount(content, "switch ") + ContentCount(content, "for ")
          + ContentCount(content, "while ") + ContentCount(content, "catch ")
          + ContentCount(content, " ? ") + ContentCount(content, "&&")
          + ContentCount(content, "||"), 20)

JSCodeElement(name, type, file_path, line_number, complexity_score) ==
    [name             |-> name,
     type             |-> type,
     file_path        |-> file_path,
     line_number      |-> line_number,
     docstring        |-> "",
     complexity_score |-> complexity_score,
     dependencies     |-> <<>>,
     decorators       |-> <<>>]

\* the element appended for a match, none when the pattern did not match
JsElement(name, type, file_path, line_number, complexity_score) ==
    IF name = "" THEN <<>>
    ELSE <<JSCodeElement(name, type, file_path, line_number, complexity_score)>>

\* the elements _extract_elements appends for line i, in its order: one per
\* function pattern that matches, the class, the interface, the type, one
\* per component pattern that matches
js_elements_of_line(content, file_path, i) ==
    JsElement(JsRegularFunction(content[i]), "function", file_path, i,
              js_calculate_complexity(content, i))
    \o JsElement(JsArrowFunction(content[i]), "function", file_path, i,
                 js_calculate_complexity(content, i))
    \o JsElement(JsMethod(content[i]), "function", file_path, i,
                 js_calculate_complexity(content, i))
    \o JsElement(JsClass(content[i]), "class", file_path, i,
                 js_calculate_complexity(content, i))
    \o JsElement(JsInterface(content[i]), "interface", file_path, i, 0)
    \o JsElement(JsType(content[i]), "type", file_path, i, 0)
    \o JsElement(JsFunctionComponent(content[i]), "component", file_path, i,
                 js_calculate_complexity(content, i))
    \o JsElement(JsConstComponent(content[i]), "component", file_path, i,
                 js_calculate_complexity(content, i))

\* JavaScriptAnalyzer._extract_elements(content, file_path)
RECURSIVE js_extract_from(_, _, _)
js_extract_from(content, file_path, i) ==
    IF i > Len(content) THEN <<>>
    ELSE js_elements_of_line(content, file_path, i)
             \o js_extract_from(content, file_path, i + 1)

js_extract_elements(content, file_path) == js_extract_from(content, file_path, 1)

\* the JSFileAnalysis analyze_file returns, in the common format
JSFileAnalysis(file_path, content, elements, t) ==
    [file_path        |-> file_path,
     purpose          |-> "JavaScript module with "
                              \o ToString(Len(elements)) \o " elements",
     elements         |-> elements,
     imports          |-> <<>>,
     api_routes       |-> <<>>,
     database_models  |-> <<>>,
     content_hash     |-> Md5(content),
     last_analyzed    |-> t,
     breaking_changes |-> <<>>]

\* JavaScriptAnalyzer.analyze_file(file_path); the lines of the model hold
\* no import, no API call and no framework mark, and a .js or .ts file has
\* no react_components
js_analyze_file(file_path, files, t) ==
    IF ReadRaises(FileOf(file_path, files))
    THEN None
    ELSE JSFileAnalysis(file_path, FileOf(file_path, files).content,
                        js_extract_elements(FileOf(file_path, files).content, file_path),
                        t)

\* _convert_js_to_common_analysis(js_analysis); process_file returns None
\* when the JavaScript analyzer returned None
convert_js_to_common_analysis(js_analysis) == js_analysis

\* the analyzer process_file picks by the suffix (lines 776-794); None when
\* the analyzer failed or the suffix has no analyzer
analyze(file_path, files, t) ==
    IF PathSuffix(file_path) = ".py"
    THEN analyze_file(file_path, files, t)
    ELSE IF PathSuffix(file_path) \in {".js", ".jsx", ".ts", ".tsx"}
    THEN convert_js_to_common_analysis(js_analyze_file(file_path, files, t))
    ELSE None

\* self.metadata = {file_path: {...}} in place of the item assignment: the
\* map is made anew with the one record
set_metadata_fresh(md, file_path, record) == StoreKey(file_path) :> record

\* self.metadata[file_path] = {...}
set_metadata(md, file_path, record) == (StoreKey(file_path) :> record) @@ md

Sys(md, dk, fc, ec, dc) ==
    [metadata |-> md, disk |-> dk, files |-> fc, elements |-> ec, docs |-> dc]

\* process_file with the metadata write ahead of index_file: the record is
\* in the map when the index call raises
process_pipeline_metadata_first(sys, files, file_path, t, llm, index_ok) ==
    IF analyze(file_path, files, t) = None
    THEN [ret |-> "none", sys |-> sys]
    ELSE IF ~index_ok \/ generate_documentation_raises(analyze(file_path, files, t))
    THEN [ret |-> "raise",
          sys |-> [sys EXCEPT !.metadata =
                      set_metadata(sys.metadata, file_path,
                                   MetadataRecord(analyze_with_llm(
                                       analyze(file_path, files, t), llm)))]]
    ELSE [ret |-> "analysis",
          sys |-> [metadata |-> set_metadata(
                                    sys.metadata, file_path,
                                    MetadataRecord(analyze_with_llm(
                                        analyze(file_path, files, t), llm))),
                   disk     |-> save_metadata(set_metadata(
                                    sys.metadata, file_path,
                                    MetadataRecord(analyze_with_llm(
                                        analyze(file_path, files, t), llm)))),
                   files    |-> index_file([files    |-> sys.files,
                                            elements |-> sys.elements],
                                           analyze_with_llm(
                                               analyze(file_path, files, t),
                                               llm)).files,
                   elements |-> index_file([files    |-> sys.files,
                                            elements |-> sys.elements],
                                           analyze_with_llm(
                                               analyze(file_path, files, t),
                                               llm)).elements,
                   docs     |-> generate_documentation(
                                    sys.docs,
                                    analyze_with_llm(analyze(file_path, files, t),
                                                     llm))]]

\* process_file(file_path) past its should_process_file test (lines 773-816),
\* run from start to end by one thread.  sys is the state it starts from; the
\* result holds what it returns ("analysis", "none" or "raise") and the state
\* it leaves.  llm and index_ok are what the collaborators do during the call.
process_pipeline(sys, files, file_path, t, llm, index_ok) ==
    LET analysis == analyze(file_path, files, t)
    IN  IF analysis = None
        THEN [ret |-> "none", sys |-> sys]
        ELSE LET enhanced == analyze_with_llm(analysis, llm)
                 idx      == index_file([files    |-> sys.files,
                                         elements |-> sys.elements], enhanced)
             IN  IF ~index_ok
                 THEN [ret |-> "raise", sys |-> sys]
                 ELSE IF generate_documentation_raises(enhanced)
                 THEN [ret |-> "raise",
                       sys |-> [sys EXCEPT !.files = idx.files,
                                           !.elements = idx.elements]]
                 ELSE LET md == set_metadata(sys.metadata, file_path,
                                             MetadataRecord(enhanced))
                      IN  [ret |-> "analysis",
                           sys |-> [metadata |-> md,
                                    disk     |-> save_metadata(md),
                                    files    |-> idx.files,
                                    elements |-> idx.elements,
                                    docs     |-> generate_documentation(
                                                     sys.docs, enhanced)]]

\* process_file without its should_process_file test
process_file_unguarded(sys, files, file_path, t, llm, index_ok) ==
    process_pipeline(sys, files, file_path, t, llm, index_ok)

\* process_file(file_path)
process_file(sys, files, file_path, t, llm, index_ok) ==
    IF should_process_raises(file_path, sys.metadata, files)
    THEN [ret |-> "raise", sys |-> sys]
    ELSE IF ~should_process_file(file_path, sys.metadata, files)
    THEN [ret |-> "none", sys |-> sys]
    ELSE process_pipeline(sys, files, file_path, t, llm, index_ok)

---------------------------------------------------------------------------
(* The environment: the clock and the files.                               *)

\* the one file whose content the environment changes
EditedFile == PathStr(P_A)

InitialContent == <<"def_f">>

\* a modification of a file: one line replaced, inserted or deleted
EditsOf(content) ==
    LET n == Len(content)
    IN  ({[content EXCEPT ![i] = tok] : i \in 1..n, tok \in Tokens}
         \cup (IF n < MaxLines
               THEN {SubSeq(content, 1, i) \o <<tok>> \o SubSeq(content, i + 1, n) :
                        i \in 0..n, tok \in Tokens}
               ELSE {})
         \cup {SubSeq(content, 1, i - 1) \o SubSeq(content, i + 1, n) : i \in 1..n})
        \ {content}

InitFiles == [f \in Files |-> [present |-> TRUE, content |-> InitialContent]]

InitSys ==
    /\ metadata = EmptyMap
    /\ disk = [present |-> FALSE, text |-> <<>>]
    /\ file_collection = {}
    /\ element_collection = {}
    /\ docs = [n \in {} |-> None]

InitWatch ==
    /\ last_event_time = [p \in {} |-> 0]
    /\ pending_files = [p \in {} |-> 0]
    /\ evlog = <<>>
    /\ dispatched = <<>>
    /\ threads = ThreadsAtRest

InitBatch ==
    /\ batch = [state |-> "idle", parallel |-> FALSE]
    /\ tasks = <<>>

Init ==
    /\ fs = InitFiles
    /\ now = 0
    /\ InitSys
    /\ InitWatch
    /\ InitBatch
    /\ errors = {}
    /\ last_ret = "init"
    /\ edits = 0
    /\ call = NoCall
    /\ ctor = "ready"
    /\ ollama_available = TRUE

\* somebody edits the file
EditFile ==
    /\ edits < MaxEdits
    /\ fs[EditedFile].present
    /\ \E c \in EditsOf(fs[EditedFile].content) :
           fs' = [fs EXCEPT ![EditedFile].content = c]
    /\ edits' = edits + 1
    /\ UNCHANGED <<now, sysvars, errors, last_ret, watchvars, ctor, call, ollama_available, batchvars>>

CurrentSys == Sys(metadata, disk, file_collection, element_collection, docs)

SetSys(sys) ==
    /\ metadata' = sys.metadata
    /\ disk' = sys.disk
    /\ file_collection' = sys.files
    /\ element_collection' = sys.elements
    /\ docs' = sys.docs

\* how a process_file call ended: skipped up front, analysis failed, raised,
\* or returned the analysis
Outcome(sys, files, file_path, ret) ==
    IF ret = "none"
    THEN (IF should_process_file(file_path, sys.metadata, files)
          THEN "analysis_failed" ELSE "skipped")
    ELSE ret

\* a caller (the CLI, the MCP server's get_file_context) calls
\* process_file(file_path)
ProcessFile(file_path) ==
    \E r \in {process_file(CurrentSys, fs, file_path, now, llm, index_ok) :
                  llm \in LlmOutcomes(ollama_available), index_ok \in BOOLEAN} :
        /\ SetSys(r.sys)
        /\ last_ret' = Outcome(CurrentSys, fs, file_path, r.ret)
        /\ UNCHANGED <<fs, now, errors, edits, watchvars, ctor, call, ollama_available, batchvars>>

Next ==
    \/ EditFile
    \/ \E p \in PathStrings : ProcessFile(p)

Spec == Init /\ [][Next]_vars

---------------------------------------------------------------------------
(* Properties of change detection and indexing (specification Spec).       *)

Content(file_path) == FileOf(file_path, fs).content

\* process_file(p) succeeded on the content the file has now
ProcessedCurrent(p) ==
    /\ StoreKey(p) \in DOMAIN metadata
    /\ metadata[StoreKey(p)].content_hash = Md5(Content(p))

\* process_file(p) succeeded on a content the file no longer has
ProcessedStale(p) ==
    /\ StoreKey(p) \in DOMAIN metadata
    /\ metadata[StoreKey(p)].content_hash # Md5(Content(p))

\* C1: once process_file(p) has succeeded, should_process_file(p) returns
\* False while the content is unchanged and True once it differs, for every
\* path string p that process_file accepted.
C1_ChangeDetection ==
    \A p \in PathStrings :
        /\ ProcessedCurrent(p) => ~should_process_file(p, metadata, fs)
        /\ ProcessedStale(p) =>
               /\ ~should_process_raises(p, metadata, fs)
               /\ should_process_file(p, metadata, fs)

\* the analysis process_file would index for p in the current state
CurrentAnalyses(p) ==
    IF analyze_file(p, fs, now) = None THEN {}
    ELSE {analyze_with_llm(analyze_file(p, fs, now), llm) :
             llm \in LlmOutcomes(ollama_available)}

Ids(collection) == {d.id : d \in collection}

Indexed(analysis) ==
    /\ FileDoc(analysis) \in file_collection
    /\ \A i \in 1..Len(analysis.elements) :
           ElementDoc(analysis.elements[i]) \in element_collection

\* C7: after any number of index_file calls each collection holds at most
\* one document per id, and indexing again an analysis that is indexed
\* leaves the ids of both collections as they are.
C7_IdempotentIndexing ==
    /\ \A d1, d2 \in file_collection : d1.id = d2.id => d1 = d2
    /\ \A d1, d2 \in element_collection : d1.id = d2.id => d1 = d2
    /\ \A p \in PathStrings : \A a \in CurrentAnalyses(p) :
           Indexed(a) =>
               LET idx == index_file([files    |-> file_collection,
                                      elements |-> element_collection], a)
               IN  /\ Ids(idx.files) = Ids(file_collection)
                   /\ Ids(idx.elements) = Ids(element_collection)

\* the element ids of the file's latest analysis
LatestElementIds(p) ==
    UNION {{ElementId(a.elements[i]) : i \in 1..Len(a.elements)} : a \in CurrentAnalyses(p)}

ElementIdsOf(p) == {d.id : d \in {x \in element_collection : x.metadata.file_path = p}}

\* C7 witness: P_A was indexed for two contents: its overview is the one of
\* the current content and an element document of an earlier content is
\* still stored.
C7_Witness ==
    /\ ProcessedCurrent(P_A)
    /\ \E a \in CurrentAnalyses(P_A) : Indexed(a)
    /\ Cardinality(ElementIdsOf(P_A)) >= 2

\* C8: after process_file succeeded on a changed file, the element documents
\* of that file are exactly those of the elements of the latest analysis.
C8_NoStaleElements ==
    \A p \in PathStrings :
        ProcessedCurrent(p) => ElementIdsOf(p) = LatestElementIds(p)

\* C9: a process_file call for which should_process_file is false returns no
\* analysis and changes neither the metadata map, the persisted metadata,
\* the two collections nor the generated documentation.
C9_SkipIsNoOp ==
    [][\/ (UNCHANGED sysvars /\ last_ret' = "skipped")
       \/ \A p \in PathStrings :
              \/ should_process_raises(p, metadata, fs)
              \/ should_process_file(p, metadata, fs)
              \/ ~ProcessFile(p)]_vars

\* C9 witness: a call was skipped for an unchanged, tracked file
C9_Witness ==
    /\ last_ret = "skipped"
    /\ ProcessedCurrent(P_A)
    /\ ~should_process_file(P_A, metadata, fs)

---------------------------------------------------------------------------
(* DocumentationWatcher and WatcherManager (src/scripts/watch.py).         *)

MaxEvents == 2

MaxTime == 4

\* DocumentationWatcher.debounce_seconds
debounce_seconds == 2

\* the path as one string, as watchdog reports it in event.src_path
RECURSIVE JoinFrom(_, _)
JoinFrom(p, i) ==
    IF i > Len(p) THEN ""
    ELSE (IF i > 1 /\ p[i - 1] # "/" THEN "/" ELSE "") \o p[i] \o JoinFrom(p, i + 1)

PathText(p) == JoinFrom(p, 1)

\* DocumentationSystem.ignored_patterns (doc_system.py:721)
ignored_patterns ==
    {"__pycache__", ".pytest_cache", ".git", "venv", ".venv",
     "node_modules", "__init__.py", "migrations", ".pyc"}

\* the tests on_modified and on_deleted make before they act
WatcherAccepts(event) ==
    /\ ~event.is_directory
    /\ EndsWith(PathText(event.src_path), ".py")
    /\ ~\E pattern \in ignored_patterns : Contains(PathText(event.src_path), pattern)

\* last_event_time.get(file_path, 0)
LastTime(let, file_path) == IF file_path \in DOMAIN let THEN let[file_path] ELSE 0

\* DocumentationWatcher.should_process(file_path) at time t: the answer and
\* the bookkeeping it leaves
should_process(let, pend, file_path, t) ==
    IF t - LastTime(let, file_path) < debounce_seconds
    THEN [ok |-> FALSE, let |-> let, pend |-> (file_path :> t) @@ pend]
    ELSE [ok |-> TRUE, let |-> (file_path :> t) @@ let, pend |-> pend]

\* DocumentationWatcher._process_file(file_path): the state it leaves,
\* whether it called process_file, and whether it logged an error
watch_process_file(sys, files, file_path, t, llm, index_ok) ==
    IF \/ ~FileOf(file_path, files).present
       \/ ~EndsWith(PathText(file_path), ".py")
       \/ ~should_process_file(file_path, sys.metadata, files)
    THEN [sys |-> sys, called |-> FALSE, ret |-> "none"]
    ELSE LET r == process_file(sys, files, file_path, t, llm, index_ok)
         IN  [sys |-> r.sys, called |-> TRUE, ret |-> r.ret]

\* process_pending() at time t: the pending paths that have settled
Settled(pend, t) == {p \in DOMAIN pend : t - pend[p] >= debounce_seconds}

\* one round of process_pending's second loop: _process_file(file_path),
\* with its process_file call and a raised error noted
process_one(acc, file_path, r) ==
    [sys    |-> r.sys,
     calls  |-> IF r.called THEN Append(acc.calls, file_path) ELSE acc.calls,
     raised |-> IF r.ret = "raise" THEN acc.raised \cup {file_path} ELSE acc.raised]

Pick(paths) == CHOOSE x \in paths : TRUE

RECURSIVE process_all(_, _, _, _, _, _)
process_all(acc, files, paths, t, llm, index_ok) ==
    IF paths = {} THEN acc
    ELSE process_all(process_one(acc, Pick(paths),
                                 watch_process_file(acc.sys, files, Pick(paths),
                                                    t, llm, index_ok)),
                     files, paths \ {Pick(paths)}, t, llm, index_ok)

\* the time of the last event the watcher accepted for the path
LastEventAt(log, file_path) ==
    LET is == {i \in 1..Len(log) : log[i].path = file_path /\ log[i].kind = "modified"}
    IN  IF is = {} THEN 0 ELSE log[CHOOSE i \in is : \A j \in is : j <= i].time

Dispatch(log, file_path, t) ==
    [path |-> file_path, time |-> t, last_event |-> LastEventAt(log, file_path)]

RECURSIVE Dispatches(_, _, _)
Dispatches(log, paths, t) ==
    IF paths = <<>> THEN <<>>
    ELSE <<Dispatch(log, Head(paths), t)>> \o Dispatches(log, Tail(paths), t)

ErrorsFor(op, paths) == {[op |-> op, path |-> p] : p \in paths}

\* the events the filesystem notification source delivers
P_SRC == <<"/", "proj", "src">>

WatchedEvents ==
    {[src_path |-> P_A, is_directory |-> FALSE],
     [src_path |-> P_VENV, is_directory |-> FALSE],
     [src_path |-> P_SRC, is_directory |-> TRUE]}

\* what a writer leaves in the watched file: another declaration, or a line
\* that does not parse
WrittenBy(content) == {<<tok>> : tok \in {"def_f", "def_g", "bad"}} \ {content}

\* on_modified(event) for an accepted event at time now, the file holding
\* what files says: debounce, then _process_file
HandleModified(files, file_path) ==
    \E sp \in {should_process(last_event_time, pending_files, file_path, now)} :
        /\ evlog' = Append(evlog, [kind |-> "modified", path |-> file_path, time |-> now])
        /\ last_event_time' = sp.let
        /\ pending_files' = sp.pend
        /\ IF ~sp.ok
           THEN UNCHANGED <<sysvars, errors, dispatched>>
           ELSE \E llm \in LlmOutcomes(ollama_available), index_ok \in BOOLEAN :
                \E r \in {watch_process_file(CurrentSys, files, file_path,
                                              now, llm, index_ok)} :
                        /\ SetSys(r.sys)
                        /\ dispatched' =
                               IF r.called
                               THEN Append(dispatched, Dispatch(evlog', file_path, now))
                               ELSE dispatched
                        /\ errors' =
                               IF r.ret = "raise"
                               THEN errors \cup ErrorsFor("process", {file_path})
                               ELSE errors

\* an event on_modified, on_created and on_deleted return from at once; the
\* model does not follow the files such events are about
IgnoredEvent(event) ==
    /\ ~WatcherAccepts(event)
    /\ UNCHANGED vars

\* a file is written and the observer calls on_modified(event)
OnModified(event) ==
    /\ WatcherAccepts(event)
    /\ Len(evlog) < MaxEvents
    /\ fs[PathStr(event.src_path)].present
    /\ \E c \in WrittenBy(fs[PathStr(event.src_path)].content) :
           /\ fs' = [fs EXCEPT ![PathStr(event.src_path)].content = c]
           /\ HandleModified(fs', event.src_path)
    /\ UNCHANGED <<now, last_ret, edits, threads, ctor, call, ollama_available, batchvars>>

\* DocumentationSystem has no remove_file method: the call in on_deleted
\* raises AttributeError
HasRemoveFile == FALSE

\* a file is removed and the observer calls on_deleted(event)
OnDeleted(event) ==
    /\ WatcherAccepts(event)
    /\ Len(evlog) < MaxEvents
    /\ fs[PathStr(event.src_path)].present
    /\ fs' = [fs EXCEPT ![PathStr(event.src_path)].present = FALSE]
    /\ evlog' = Append(evlog, [kind |-> "deleted", path |-> event.src_path, time |-> now])
    /\ errors' = IF HasRemoveFile
                 THEN errors
                 ELSE errors \cup ErrorsFor("remove", {event.src_path})
    /\ UNCHANGED <<now, sysvars, last_ret, edits, last_event_time, pending_files,
                   dispatched, threads, ctor, call, ollama_available, batchvars>>

\* a removed file is written again and the observer calls on_created(event),
\* which is on_modified(event)
OnCreated(event) ==
    /\ WatcherAccepts(event)
    /\ Len(evlog) < MaxEvents
    /\ ~fs[PathStr(event.src_path)].present
    /\ \E c \in WrittenBy(<<>>) :
           /\ fs' = [fs EXCEPT ![PathStr(event.src_path)] =
                                   [present |-> TRUE, content |-> c]]
           /\ HandleModified(fs', event.src_path)
    /\ UNCHANGED <<now, last_ret, edits, threads, ctor, call, ollama_available, batchvars>>

\* WatcherManager.start's loop: time.sleep(1), then handler.process_pending()
WatchTick ==
    /\ now < debounce_seconds + MaxTime
    /\ now' = now + 1
    /\ LET settled == Settled(pending_files, now')
       IN  /\ pending_files' = [p \in DOMAIN pending_files \ settled |-> pending_files[p]]
           /\ \E llm \in LlmOutcomes(ollama_available), index_ok \in BOOLEAN :
                  \E r \in {process_all([sys |-> CurrentSys, calls |-> <<>>, raised |-> {}],
                                        fs, settled, now', llm, index_ok)} :
                      /\ SetSys(r.sys)
                      /\ dispatched' = dispatched \o Dispatches(evlog, r.calls, now')
                      /\ errors' = errors \cup ErrorsFor("process", r.raised)
    /\ UNCHANGED <<fs, last_ret, edits, last_event_time, evlog, threads, ctor, call,
                   ollama_available, batchvars>>

\* the watcher starts on a fresh system; the clock is past the first
\* debounce window, as time.time() is
InitWatcher ==
    /\ fs = InitFiles
    /\ now = debounce_seconds
    /\ InitSys
    /\ InitWatch
    /\ InitBatch
    /\ errors = {}
    /\ last_ret = "init"
    /\ edits = 0
    /\ call = NoCall
    /\ ctor = "ready"
    /\ ollama_available = FALSE

NextWatcher ==
    \/ WatchTick
    \/ \E event \in WatchedEvents : OnModified(event)
    \/ \E event \in WatchedEvents : OnDeleted(event)
    \/ \E event \in WatchedEvents : OnCreated(event)
    \/ \E event \in WatchedEvents : IgnoredEvent(event)

SpecWatcher == InitWatcher /\ [][NextWatcher]_vars

---------------------------------------------------------------------------
(* Claims about the watcher.                                               *)

\* the modify events of the log for a path, in order
RECURSIVE ModifyTimes(_, _)
ModifyTimes(log, file_path) ==
    IF log = <<>> THEN <<>>
    ELSE (IF Head(log).path = file_path /\ Head(log).kind = "modified"
          THEN <<Head(log).time>> ELSE <<>>) \o ModifyTimes(Tail(log), file_path)

\* the number of bursts among the events: a burst ends where the gap to the
\* next event is a full debounce window or more
Bursts(times) ==
    IF times = <<>> THEN 0
    ELSE 1 + Cardinality({i \in 1..(Len(times) - 1) :
                              times[i + 1] - times[i] >= debounce_seconds})

DispatchesOf(file_path) ==
    {i \in 1..Len(dispatched) : dispatched[i].path = file_path}

\* C2: modify events on one path closer together than the debounce window
\* lead to one process_file dispatch, and every dispatch comes a full
\* debounce window or more after the last event on the path.
C2_DebounceCorrectness ==
    /\ \A i \in 1..Len(dispatched) :
           dispatched[i].time - dispatched[i].last_event >= debounce_seconds
    /\ Cardinality(DispatchesOf(P_A)) <= Bursts(ModifyTimes(evlog, P_A))

\* the paths whose last handled event is their deletion
Deleted(log) ==
    {log[i].path : i \in {j \in 1..Len(log) :
        /\ log[j].kind = "deleted"
        /\ \A k \in (j + 1)..Len(log) : log[k].path # log[j].path}}

\* C3: once the watcher has handled the delete event of a file, the file has
\* no Metadata Record and no document in either collection.
C3_DeletionCleanup ==
    \A p \in Deleted(evlog) :
        /\ StoreKey(p) \notin DOMAIN metadata
        /\ LookupKey(p) \notin DOMAIN metadata
        /\ ~\E d \in file_collection : d.id = p
        /\ ~\E d \in element_collection : d.metadata.file_path = p

---------------------------------------------------------------------------
(* Construction of the DocumentationSystem over what is on disk.           *)

MaxText == 3

\* a record as process_file writes it
SampleRecord ==
    [content_hash   |-> Md5(InitialContent),
     last_analyzed  |-> 0,
     elements_count |-> 1,
     purpose        |-> "Module with 0 classes and 1 functions"]

\* what docs/file_metadata.json may hold when the system starts: any text,
\* written by an earlier run or left by something else
DiskTokens == {LBrace, RBrace, LBracket, RBracket, Pair(P_A, SampleRecord)}

DiskTexts == UNION {[1..n -> DiskTokens] : n \in 0..MaxText}

\* DocumentationSystem.__init__: the components, then _load_metadata(); an
\* exception of _load_metadata leaves __init__
Construct ==
    /\ ctor = "new"
    /\ ollama_available' \in BOOLEAN
    /\ IF load_metadata_raises(disk)
       THEN /\ ctor' = "raised"
            /\ UNCHANGED metadata
       ELSE /\ ctor' = "ready"
            /\ metadata' = load_metadata(disk)
    /\ UNCHANGED <<fs, now, disk, file_collection, element_collection, docs, errors,
                   last_ret, edits, watchvars, batchvars, call>>

InitLoad ==
    /\ fs = InitFiles
    /\ now = 0
    /\ metadata = EmptyMap
    /\ disk \in {[present |-> FALSE, text |-> <<>>]}
                   \cup {[present |-> TRUE, text |-> t] : t \in DiskTexts}
    /\ file_collection = {}
    /\ element_collection = {}
    /\ docs = [n \in {} |-> None]
    /\ InitWatch
    /\ InitBatch
    /\ errors = {}
    /\ last_ret = "init"
    /\ edits = 0
    /\ call = NoCall
    /\ ctor = "new"
    /\ ollama_available = FALSE

NextLoad == Construct

SpecLoad == InitLoad /\ [][NextLoad]_vars

\* C5: with the persisted metadata file missing or holding anything but a
\* JSON map, construction completes and the metadata map is empty.
C5_LoadNeverFails ==
    /\ ctor # "raised"
    /\ (ctor = "ready" /\ (~disk.present \/ ~JsonIsMap(disk.text)))
           => metadata = EmptyMap

---------------------------------------------------------------------------
(* process_project: the batch over directories (doc_system.py:948-997).    *)

\* _process_parallel(files, max_workers=4)
max_workers == 4

\* the files of the project, in the order rglob meets them
ProjectFiles == <<P_A, P_LOG, P_B, P_VENV, P_TS>>

\* the directory lists process_project is called with
DirectoryLists ==
    {<< <<"src">> >>,
     << <<"src">>, <<"lib">> >>,
     << <<".">>, <<"src">> >>}

\* (self.project_root / directory).rglob("*.py")
rglob(directory, files) ==
    SelectSeq(ProjectFiles,
              LAMBDA p : /\ files[p].present
                         /\ IsPrefixSeq(PathStr(project_root \o directory), p)
                         /\ PathSuffix(p) = ".py")

\* the files process_project tests with should_process_file, in order
RECURSIVE Candidates(_, _)
Candidates(directories, files) ==
    IF directories = <<>> THEN <<>>
    ELSE rglob(Head(directories), files) \o Candidates(Tail(directories), files)

\* the enumeration raises what should_process_file raises
enumerate_raises(directories, md, files) ==
    \E i \in 1..Len(Candidates(directories, files)) :
        should_process_raises(Candidates(directories, files)[i], md, files)

\* python_files
enumerate(directories, md, files) ==
    SelectSeq(Candidates(directories, files),
              LAMBDA p : should_process_file(p, md, files))

\* a process_file call of the batch that has not started
NewTask(file_path) ==
    [path |-> file_path, pc |-> "queued", outcome |-> "pending",
     analysis |-> None, seen |-> EmptyMap, collected |-> FALSE]

\* try: process_file(file_path) / future.result()
\* except Exception: logger.error(...): the loop goes on (on_result);
\* on_result_uncaught is the loop without the except clause
on_result_uncaught(ret) == IF ret = "raise" THEN "raised" ELSE "running"

on_result(ret) == "running"

Logged(file_path, ret) ==
    IF ret = "raise" THEN ErrorsFor("process", {file_path}) ELSE {}

\* _generate_project_overview raises when a metadata key is not under the
\* project root
generate_project_overview_raises(md) ==
    \E key \in DOMAIN md : RelativeToRaises(key, project_root)

\* process_project(directories, parallel) up to the first process_file call
ProcessProject ==
    /\ batch.state = "idle"
    /\ \E directories \in DirectoryLists, parallel \in BOOLEAN :
           IF enumerate_raises(directories, metadata, fs)
           THEN /\ batch' = [state |-> "raised", parallel |-> parallel]
                /\ UNCHANGED tasks
           ELSE \E python_files \in {enumerate(directories, metadata, fs)} :
                    IF python_files = <<>>
                    THEN /\ batch' = [state |-> "done", parallel |-> parallel]
                         /\ UNCHANGED tasks
                    ELSE /\ batch' = [state    |-> "running",
                                      parallel |-> parallel /\ Len(python_files) > 1]
                         /\ tasks' = [i \in 1..Len(python_files) |->
                                         NewTask(python_files[i])]
    /\ UNCHANGED <<fs, now, sysvars, errors, last_ret, edits, watchvars, ctor, call,
                   ollama_available>>

\* a process_file call ends
EndTask(i, outcome, collected) ==
    tasks' = [tasks EXCEPT ![i] = [@ EXCEPT !.pc = "done", !.outcome = outcome,
                                            !.collected = collected]]

\* one round of _process_sequential's loop
SequentialStep ==
    /\ batch.state = "running"
    /\ ~batch.parallel
    /\ \E i \in DOMAIN tasks :
           /\ tasks[i].pc = "queued"
           /\ \A j \in 1..(i - 1) : tasks[j].pc = "done"
           /\ \E llm \in LlmOutcomes(ollama_available), index_ok \in BOOLEAN :
              \E r \in {process_file(CurrentSys, fs, tasks[i].path, now, llm, index_ok)} :
                  /\ SetSys(r.sys)
                  /\ EndTask(i, Outcome(CurrentSys, fs, tasks[i].path, r.ret), TRUE)
                  /\ errors' = errors \cup Logged(tasks[i].path, r.ret)
                  /\ batch' = [batch EXCEPT !.state = on_result(r.ret)]
    /\ UNCHANGED <<fs, now, last_ret, edits, watchvars, ctor, call, ollama_available>>

Active == {i \in DOMAIN tasks : tasks[i].pc \notin {"queued", "done"}}

InPool(i, pc) ==
    /\ batch.state = "running"
    /\ batch.parallel
    /\ tasks[i].pc = pc

\* a pool thread takes the call: should_process_file, the analyzer, the LLM
WorkerStart(i) ==
    /\ InPool(i, "queued")
    /\ Cardinality(Active) < max_workers
    /\ IF should_process_raises(tasks[i].path, metadata, fs)
       THEN EndTask(i, "raise", FALSE)
       ELSE IF ~should_process_file(tasks[i].path, metadata, fs)
       THEN EndTask(i, "skipped", FALSE)
       ELSE \E llm \in LlmOutcomes(ollama_available) :
            \E analysis \in {analyze(tasks[i].path, fs, now)} :
                IF analysis = None
                THEN EndTask(i, "analysis_failed", FALSE)
                ELSE tasks' = [tasks EXCEPT ![i] =
                         [@ EXCEPT !.pc = "index",
                                   !.analysis = analyze_with_llm(analysis, llm)]]
    /\ UNCHANGED <<fs, now, sysvars, errors, last_ret, edits, watchvars, ctor, call,
                   ollama_available, batch>>

\* self.indexer.index_file(analysis)
WorkerIndex(i) ==
    /\ InPool(i, "index")
    /\ \E index_ok \in BOOLEAN :
           IF ~index_ok
           THEN /\ EndTask(i, "raise", FALSE)
                /\ UNCHANGED <<file_collection, element_collection>>
           ELSE \E idx \in {index_file([files    |-> file_collection,
                                        elements |-> element_collection],
                                       tasks[i].analysis)} :
                    /\ file_collection' = idx.files
                    /\ element_collection' = idx.elements
                    /\ tasks' = [tasks EXCEPT ![i].pc = "docgen"]
    /\ UNCHANGED <<fs, now, metadata, disk, docs, errors, last_ret, edits, watchvars,
                   ctor, call, ollama_available, batch>>

\* self._generate_documentation(analysis)
WorkerDocgen(i) ==
    /\ InPool(i, "docgen")
    /\ IF generate_documentation_raises(tasks[i].analysis)
       THEN /\ EndTask(i, "raise", FALSE)
            /\ UNCHANGED docs
       ELSE /\ docs' = generate_documentation(docs, tasks[i].analysis)
            /\ tasks' = [tasks EXCEPT ![i].pc = "set"]
    /\ UNCHANGED <<fs, now, metadata, disk, file_collection, element_collection,
                   errors, last_ret, edits, watchvars, ctor, call, ollama_available, batch>>

\* self.metadata[file_path] = {...}
WorkerSetMetadata(i) ==
    /\ InPool(i, "set")
    /\ metadata' = set_metadata(metadata, tasks[i].path,
                                MetadataRecord(tasks[i].analysis))
    /\ tasks' = [tasks EXCEPT ![i].pc = "save"]
    /\ UNCHANGED <<fs, now, disk, file_collection, element_collection, docs,
                   errors, last_ret, edits, watchvars, ctor, call, ollama_available, batch>>

\* _save_metadata(): open(self.metadata_file, 'w') empties the file and
\* json.dump starts to walk the map
WorkerDumpOpen(i) ==
    /\ InPool(i, "save")
    /\ disk' = [present |-> TRUE, text |-> <<>>]
    /\ tasks' = [tasks EXCEPT ![i] = [@ EXCEPT !.pc = "dumping", !.seen = metadata]]
    /\ UNCHANGED <<fs, now, metadata, file_collection, element_collection, docs,
                   errors, last_ret, edits, watchvars, ctor, call, ollama_available, batch>>

\* json.dump walks the map to its end: RuntimeError when the map changed
\* size since the walk began, the text of the map otherwise
WorkerDumpWrite(i) ==
    /\ InPool(i, "dumping")
    /\ IF Cardinality(DOMAIN metadata) # Cardinality(DOMAIN tasks[i].seen)
       THEN /\ disk' = [present |-> TRUE, text |-> <<LBrace>>]
            /\ EndTask(i, "raise", FALSE)
       ELSE /\ disk' = save_metadata(metadata)
            /\ EndTask(i, "analysis", FALSE)
    /\ UNCHANGED <<fs, now, metadata, file_collection, element_collection, docs,
                   errors, last_ret, edits, watchvars, ctor, call, ollama_available, batch>>

\* one round of the as_completed loop of _process_parallel
Collect(i) ==
    /\ InPool(i, "done")
    /\ ~tasks[i].collected
    /\ tasks' = [tasks EXCEPT ![i].collected = TRUE]
    /\ errors' = errors \cup Logged(tasks[i].path, tasks[i].outcome)
    /\ batch' = [batch EXCEPT !.state = on_result(tasks[i].outcome)]
    /\ UNCHANGED <<fs, now, sysvars, last_ret, edits, watchvars, ctor, call, ollama_available>>

\* the loop is over: _generate_project_overview(), and process_project returns
FinishBatch ==
    /\ batch.state = "running"
    /\ \A i \in DOMAIN tasks : tasks[i].pc = "done" /\ tasks[i].collected
    /\ batch' = [batch EXCEPT !.state =
                    IF generate_project_overview_raises(metadata)
                    THEN "raised" ELSE "done"]
    /\ UNCHANGED <<fs, now, sysvars, errors, last_ret, edits, watchvars, ctor, call,
                   ollama_available, tasks>>

\* what a.py holds when the batch starts
BatchContents == {<<"def_f">>, <<"def_g">>, <<"bad">>, <<"nonutf8">>}

EmptySys ==
    Sys(EmptyMap, [present |-> FALSE, text |-> <<>>], {}, {}, [n \in {} |-> None])

\* the system before the batch: new, or with a.py processed by an earlier run
EarlierRuns ==
    {EmptySys,
     process_file(EmptySys, InitFiles, P_A, 0, "unavailable", TRUE).sys}

InitProject ==
    /\ \E c \in BatchContents :
           fs = [f \in {P_A, P_LOG, P_B, P_VENV, P_TS} |->
                    [present |-> TRUE,
                     content |-> IF f = P_A THEN c
                                 ELSE IF f = P_TS THEN <<"function f() {">>
                                 ELSE <<"def_g">>]]
    /\ now = 1
    /\ \E sys \in EarlierRuns :
           /\ metadata = sys.metadata
           /\ disk = sys.disk
           /\ file_collection = sys.files
           /\ element_collection = sys.elements
           /\ docs = sys.docs
    /\ InitWatch
    /\ InitBatch
    /\ errors = {}
    /\ last_ret = "init"
    /\ edits = 0
    /\ call = NoCall
    /\ ctor = "ready"
    /\ ollama_available = FALSE

NextBatch ==
    \/ ProcessProject
    \/ SequentialStep
    \/ \E i \in DOMAIN tasks : WorkerStart(i)
    \/ \E i \in DOMAIN tasks : WorkerIndex(i)
    \/ \E i \in DOMAIN tasks : WorkerDocgen(i)
    \/ \E i \in DOMAIN tasks : WorkerSetMetadata(i)
    \/ \E i \in DOMAIN tasks : WorkerDumpOpen(i)
    \/ \E i \in DOMAIN tasks : WorkerDumpWrite(i)
    \/ \E i \in DOMAIN tasks : Collect(i)
    \/ FinishBatch

SpecBatch == InitProject /\ [][NextBatch]_vars

---------------------------------------------------------------------------
(* Claims about the batch.                                                 *)

\* the calls between "self.metadata[file_path] = ..." and the end of
\* _save_metadata()
InSection(i) == tasks[i].pc \in {"save", "dumping"}

\* C4: in parallel mode no two workers are at once between the metadata
\* update and the end of the dump, and the map a worker is serialising is
\* not changed by another worker.
C4_MetadataExclusion ==
    batch.parallel =>
        /\ \A i, j \in DOMAIN tasks : (InSection(i) /\ InSection(j)) => i = j
        /\ \A i \in DOMAIN tasks : tasks[i].pc = "dumping" => tasks[i].seen = metadata

\* C6: a process_file call that raises is logged and ends neither the batch
\* nor another call: the batch raises only before the first call, and when it
\* returns every enumerated file has its outcome.
C6_FailureIsolation ==
    /\ batch.state = "raised" => tasks = <<>>
    /\ \A i \in DOMAIN tasks :
           (tasks[i].collected /\ tasks[i].outcome = "raise")
               => [op |-> "process", path |-> tasks[i].path] \in errors
    /\ batch.state = "done" =>
           \A i \in DOMAIN tasks :
               /\ tasks[i].pc = "done"
               /\ tasks[i].collected
               /\ tasks[i].outcome \in {"analysis", "analysis_failed", "skipped", "raise"}

C6_Witness ==
    /\ batch.state = "done"
    /\ \E i, j \in DOMAIN tasks :
           /\ i < j
           /\ tasks[i].outcome = "raise"
           /\ tasks[j].outcome = "analysis"
           /\ tasks[j].path \in DOMAIN metadata

\* the calls of the batch in which the analyzer failed on the file
FailedOn(file_path) ==
    {i \in DOMAIN tasks :
        tasks[i].path = file_path /\ tasks[i].outcome = "analysis_failed"}

\* C10: for a file the analyzer fails on, process_file returns no analysis
\* without raising, leaves no Metadata Record of the content, and the batch
\* does not attempt the file again.
C10_AnalysisFailureSkipOnly ==
    \A i \in DOMAIN tasks :
        LET file == FileOf(tasks[i].path, fs)
        IN  (tasks[i].pc = "done" /\ (ReadRaises(file) \/ ParseRaises(file.content)))
                => /\ tasks[i].outcome = "analysis_failed"
                   /\ StoreKey(tasks[i].path) \in DOMAIN metadata
                          => metadata[StoreKey(tasks[i].path)].content_hash
                                 # Md5(file.content)
                   /\ Cardinality(FailedOn(tasks[i].path)) <= 1


---------------------------------------------------------------------------
(* The LLM collaborator (specification SpecLlm): one file whose content    *)
(* holds routes, models and complex functions is processed while the LLM   *)
(* is unavailable, fails, or answers.                                      *)

LlmTokens == {"def_f", "blank", "bad"} \cup MoreTokens

LlmContents == UNION {[1..n -> LlmTokens] : n \in 0..MaxLines}

\* LLMAnalyzer.__init__: _check_ollama decides once whether the LLM is there
InitLlm ==
    /\ \E c \in LlmContents :
           fs = [InitFiles EXCEPT ![EditedFile].content = c]
    /\ ollama_available \in BOOLEAN
    /\ now = 0
    /\ InitSys
    /\ InitWatch
    /\ InitBatch
    /\ errors = {}
    /\ last_ret = "init"
    /\ edits = 0
    /\ call = NoCall
    /\ ctor = "ready"

\* process_file(file_path), keeping what the LLM did during the call, what
\* the analyzer produced and what analyze_with_llm returned
LlmProcessFile(file_path) ==
    \E llm \in LlmOutcomes(ollama_available), index_ok \in BOOLEAN :
      \E r \in {process_file(CurrentSys, fs, file_path, now, llm, index_ok)} :
        \E a \in {analyze(file_path, fs, now)} :
          /\ SetSys(r.sys)
          /\ last_ret' = Outcome(CurrentSys, fs, file_path, r.ret)
          /\ call' = [op       |-> "process_file",
                      input    |-> file_path,
                      llm      |-> llm,
                      index_ok |-> index_ok,
                      outcome  |-> Outcome(CurrentSys, fs, file_path, r.ret),
                      analysis |-> a,
                      returned |-> IF a = None THEN None
                                   ELSE analyze_with_llm(a, llm)]
          /\ UNCHANGED <<fs, now, errors, edits, watchvars, ctor,
                         ollama_available, batchvars>>

NextLlm == \E p \in PathStrings : LlmProcessFile(p)

SpecLlm == InitLlm /\ [][NextLlm]_vars

\* the heuristic list: has routes, has models, has an element over 10
C11_Heuristic(analysis) ==
    (IF Len(analysis.api_routes) > 0
     THEN <<"Modifying API routes may break client applications">> ELSE <<>>)
    \o (IF Len(analysis.database_models) > 0
        THEN <<"Changing database models requires migration">> ELSE <<>>)
    \o (IF \E i \in 1..Len(analysis.elements) :
               analysis.elements[i].complexity_score > 10
        THEN <<"High complexity functions">> ELSE <<>>)

C11_LlmFailed ==
    /\ call.op = "process_file"
    /\ call.llm \in {"unavailable", "raises"}
    /\ call.outcome # "skipped"
    /\ call.analysis # None

\* C11: when the LLM is unavailable at startup or its generate call fails
\* during process_file, analyze_with_llm returns the analyzer's analysis with
\* breaking_changes set to the heuristic list, and process_file, unless the
\* index or the documentation writer fails, returns the analysis with the
\* file's document indexed and its Metadata Record written.
C11_LlmDegradesGracefully ==
    C11_LlmFailed =>
        /\ call.returned = [call.analysis EXCEPT
                               !.breaking_changes = C11_Heuristic(call.analysis)]
        /\ (call.index_ok /\ ~generate_documentation_raises(call.returned))
               => call.outcome = "analysis"
        /\ call.outcome = "analysis" =>
               /\ FileDoc(call.returned) \in file_collection
               /\ StoreKey(call.input) \in DOMAIN metadata
               /\ metadata[StoreKey(call.input)] = MetadataRecord(call.returned)
               /\ disk = save_metadata(metadata)

\* the generate call failed on a file with a route, a model and a complex
\* function, and the file was indexed and recorded all the same
C11_Witness ==
    /\ C11_LlmFailed
    /\ call.llm = "raises"
    /\ call.outcome = "analysis"
    /\ Len(call.returned.breaking_changes) = 2
    /\ Len(call.analysis.api_routes) = 1
    /\ \E i \in 1..Len(call.analysis.elements) :
           call.analysis.elements[i].complexity_score > 10


---------------------------------------------------------------------------
(* The watcher's threads (specification SpecThreads).  observer.start()    *)
(* starts the thread that calls on_modified; WatcherManager.start's own    *)
(* thread sleeps and calls process_pending.  Each thread moves one step    *)
(* at a time; a process_file call takes effect when it returns.            *)

MaxCallbacks == 3

\* list(self.pending_files.items()) filtered: the settled paths in order
RECURSIVE files_to_process(_)
files_to_process(paths) ==
    IF paths = {} THEN <<>>
    ELSE <<Pick(paths)>> \o files_to_process(paths \ {Pick(paths)})

\* _process_file(file_path) up to its process_file call: TRUE when it makes it
watch_process_file_calls(sys, files, file_path) ==
    /\ FileOf(file_path, files).present
    /\ EndsWith(PathText(file_path), ".py")
    /\ should_process_file(file_path, sys.metadata, files)

\* a file is written and the observer thread enters on_modified(event)
ObserverDeliver(event) ==
    /\ threads.observer.pc = "idle"
    /\ WatcherAccepts(event)
    /\ Len(evlog) < MaxCallbacks
    /\ fs[PathStr(event.src_path)].present
    /\ \E c \in WrittenBy(fs[PathStr(event.src_path)].content) :
           fs' = [fs EXCEPT ![PathStr(event.src_path)].content = c]
    /\ evlog' = Append(evlog, [kind |-> "modified", path |-> event.src_path, time |-> now])
    /\ threads' = [threads EXCEPT !.observer =
                       [pc |-> "should_process", path |-> event.src_path]]
    /\ UNCHANGED <<now, sysvars, errors, last_ret, edits, last_event_time, pending_files,
                   dispatched, ctor, call, ollama_available, batchvars>>

\* the observer thread runs should_process(file_path)
ObserverShouldProcess ==
    /\ threads.observer.pc = "should_process"
    /\ \E sp \in {should_process(last_event_time, pending_files,
                                 threads.observer.path, now)} :
           /\ last_event_time' = sp.let
           /\ pending_files' = sp.pend
           /\ threads' = [threads EXCEPT !.observer =
                              IF sp.ok
                              THEN [pc |-> "_process_file", path |-> threads.observer.path]
                              ELSE [pc |-> "idle"]]
    /\ UNCHANGED <<fs, now, sysvars, errors, last_ret, edits, evlog, dispatched, ctor,
                   call, ollama_available, batchvars>>

\* the observer thread runs _process_file up to the process_file call
ObserverProcessFile ==
    /\ threads.observer.pc = "_process_file"
    /\ threads' = [threads EXCEPT !.observer =
                       IF watch_process_file_calls(CurrentSys, fs, threads.observer.path)
                       THEN [pc |-> "process_file", path |-> threads.observer.path]
                       ELSE [pc |-> "idle"]]
    /\ UNCHANGED <<fs, now, sysvars, errors, last_ret, edits, last_event_time,
                   pending_files, evlog, dispatched, ctor, call, ollama_available,
                   batchvars>>

\* the process_file call of the thread returns or raises into _process_file
ThreadReturn(file_path) ==
    \E r \in {process_file(CurrentSys, fs, file_path, now, llm, index_ok) :
                  llm \in LlmOutcomes(ollama_available), index_ok \in BOOLEAN} :
        /\ SetSys(r.sys)
        /\ dispatched' = Append(dispatched, Dispatch(evlog, file_path, now))
        /\ errors' = IF r.ret = "raise"
                     THEN errors \cup ErrorsFor("process", {file_path})
                     ELSE errors

ObserverReturn ==
    /\ threads.observer.pc = "process_file"
    /\ ThreadReturn(threads.observer.path)
    /\ threads' = [threads EXCEPT !.observer = [pc |-> "idle"]]
    /\ UNCHANGED <<fs, now, last_ret, edits, last_event_time, pending_files, evlog,
                   ctor, call, ollama_available, batchvars>>

\* time.sleep(1) ends and the main thread enters process_pending
MainWake ==
    /\ threads.main.pc = "sleep"
    /\ now < debounce_seconds + MaxTime
    /\ now' = now + 1
    /\ threads' = [threads EXCEPT !.main = [pc |-> "process_pending"]]
    /\ UNCHANGED <<fs, sysvars, errors, last_ret, edits, last_event_time, pending_files,
                   evlog, dispatched, ctor, call, ollama_available, batchvars>>

\* the first loop of process_pending: the settled paths leave pending_files
MainCollect ==
    /\ threads.main.pc = "process_pending"
    /\ \E settled \in {Settled(pending_files, now)} :
           /\ pending_files' = [p \in DOMAIN pending_files \ settled |-> pending_files[p]]
           /\ threads' = [threads EXCEPT !.main =
                              [pc |-> "sweep", queue |-> files_to_process(settled)]]
    /\ UNCHANGED <<fs, now, sysvars, errors, last_ret, edits, last_event_time, evlog,
                   dispatched, ctor, call, ollama_available, batchvars>>

\* the second loop: _process_file on the next path, up to process_file
MainProcessFile ==
    /\ threads.main.pc = "sweep"
    /\ threads.main.queue # <<>>
    /\ threads' = [threads EXCEPT !.main =
                       IF watch_process_file_calls(CurrentSys, fs, Head(threads.main.queue))
                       THEN [pc |-> "process_file", queue |-> threads.main.queue]
                       ELSE [pc |-> "sweep", queue |-> Tail(threads.main.queue)]]
    /\ UNCHANGED <<fs, now, sysvars, errors, last_ret, edits, last_event_time,
                   pending_files, evlog, dispatched, ctor, call, ollama_available,
                   batchvars>>

MainReturn ==
    /\ threads.main.pc = "process_file"
    /\ ThreadReturn(Head(threads.main.queue))
    /\ threads' = [threads EXCEPT !.main =
                       [pc |-> "sweep", queue |-> Tail(threads.main.queue)]]
    /\ UNCHANGED <<fs, now, last_ret, edits, last_event_time, pending_files, evlog,
                   ctor, call, ollama_available, batchvars>>

\* process_pending returns and the main thread sleeps again
MainSleep ==
    /\ threads.main.pc = "sweep"
    /\ threads.main.queue = <<>>
    /\ threads' = [threads EXCEPT !.main = [pc |-> "sleep"]]
    /\ UNCHANGED <<fs, now, sysvars, errors, last_ret, edits, last_event_time,
                   pending_files, evlog, dispatched, ctor, call, ollama_available,
                   batchvars>>

NextThreads ==
    \/ \E event \in WatchedEvents : ObserverDeliver(event)
    \/ ObserverShouldProcess
    \/ ObserverProcessFile
    \/ ObserverReturn
    \/ MainWake
    \/ MainCollect
    \/ MainProcessFile
    \/ MainReturn
    \/ MainSleep

SpecThreads == InitWatcher /\ [][NextThreads]_vars

\* C12: while the watcher runs, at most one process_file call it triggered
\* is in progress, and the event callback and the process_pending sweep,
\* which both read and write last_event_time and pending_files, never run
\* at the same time.
C12_OneThreadOfControl ==
    /\ ~(threads.observer.pc = "process_file" /\ threads.main.pc = "process_file")
    /\ ~(threads.observer.pc # "idle" /\ threads.main.pc # "sleep")


---------------------------------------------------------------------------
(* DocumentationSystem.start_file_watcher (specification                   *)
(* SpecChangeHandler): the watcher built into the documentation system.    *)
(* Its handler keeps last_event_time; its pending_files set is never       *)
(* written, and its main loop only sleeps.                                 *)

\* ChangeHandler.on_modified's test: a file whose name ends in .py
ChangeHandlerAccepts(event) ==
    /\ ~event.is_directory
    /\ EndsWith(PathText(event.src_path), ".py")

\* ChangeHandler.should_process(file_path) at time t: the answer and the
\* bookkeeping it leaves; a suppressed event is noted nowhere
change_handler_should_process(let, pend, file_path, t) ==
    IF t - LastTime(let, file_path) < 2
    THEN [ok |-> FALSE, let |-> let, pend |-> pend]
    ELSE [ok |-> TRUE, let |-> (file_path :> t) @@ let, pend |-> pend]

\* a file is written and the observer calls ChangeHandler.on_modified(event)
ChangeHandlerOnModified(event) ==
    /\ ChangeHandlerAccepts(event)
    /\ Len(evlog) < MaxEvents
    /\ fs[PathStr(event.src_path)].present
    /\ \E c \in WrittenBy(fs[PathStr(event.src_path)].content) :
           fs' = [fs EXCEPT ![PathStr(event.src_path)].content = c]
    /\ evlog' = Append(evlog, [kind |-> "modified", path |-> event.src_path, time |-> now])
    /\ \E sp \in {change_handler_should_process(last_event_time, pending_files,
                                                event.src_path, now)} :
           /\ last_event_time' = sp.let
           /\ pending_files' = sp.pend
           /\ IF ~sp.ok
              THEN UNCHANGED <<sysvars, errors, dispatched>>
              ELSE \E r \in {process_file(CurrentSys, fs', event.src_path, now,
                                          llm, index_ok) :
                                 llm \in LlmOutcomes(ollama_available),
                                 index_ok \in BOOLEAN} :
                       /\ SetSys(r.sys)
                       /\ dispatched' = Append(dispatched,
                                               Dispatch(evlog', event.src_path, now))
                       /\ errors' = IF r.ret = "raise"
                                    THEN errors \cup ErrorsFor("process", {event.src_path})
                                    ELSE errors
    /\ UNCHANGED <<now, last_ret, edits, threads, ctor, call, ollama_available, batchvars>>

\* start_file_watcher's loop: time.sleep(1) and nothing else
ChangeHandlerSleep ==
    /\ now < debounce_seconds + MaxTime
    /\ now' = now + 1
    /\ UNCHANGED <<fs, sysvars, errors, last_ret, edits, watchvars, ctor, call,
                   ollama_available, batchvars>>

NextChangeHandler ==
    \/ \E event \in WatchedEvents : ChangeHandlerOnModified(event)
    \/ ChangeHandlerSleep

SpecChangeHandler == InitWatcher /\ [][NextChangeHandler]_vars

\* the modify events logged for a watched, supported, non-ignored file
C13_Events ==
    {i \in 1..Len(evlog) :
        /\ evlog[i].kind = "modified"
        /\ WatcherAccepts([src_path |-> evlog[i].path, is_directory |-> FALSE])}

\* a process_file call the watcher made for the path at time t or later
C13_DispatchedSince(file_path, t) ==
    \E k \in 1..Len(dispatched) :
        dispatched[k].path = file_path /\ dispatched[k].time >= t

\* C13: no change is lost by the watcher.  Every modify event on a watched,
\* supported, non-ignored file, one inside the debounce window included, is
\* dispatched or recorded as pending; and once the path has been quiet for
\* the debounce window and one more turn of the loop, it has been dispatched
\* through process_file.  Stated for DocumentationSystem.start_file_watcher.
C13_NoChangeLost ==
    \A i \in C13_Events :
        /\ \/ C13_DispatchedSince(evlog[i].path, evlog[i].time)
           \/ evlog[i].path \in DOMAIN pending_files
        /\ now - LastEventAt(evlog, evlog[i].path) > debounce_seconds
               => C13_DispatchedSince(evlog[i].path, evlog[i].time)


---------------------------------------------------------------------------
(* Claims about the persisted metadata (specification SpecBatch).          *)

\* the tasks of the batch whose process_file call returned an analysis
C14_Succeeded == {i \in DOMAIN tasks : tasks[i].outcome = "analysis"}

\* C14: when process_project returns, in sequential or parallel mode, after
\* at least one process_file call succeeded, the persisted metadata file is a
\* well-formed JSON map equal to the in-memory metadata map, and the map
\* holds a record for every file successfully processed.
C14_PersistedTracksMemory ==
    (batch.state = "done" /\ C14_Succeeded # {}) =>
        /\ disk.present
        /\ JsonIsMap(disk.text)
        /\ JsonLoadMap(disk.text) = metadata
        /\ \A i \in C14_Succeeded :
               /\ StoreKey(tasks[i].path) \in DOMAIN metadata
               /\ DOMAIN metadata[StoreKey(tasks[i].path)] =
                      {"content_hash", "last_analyzed", "elements_count", "purpose"}


---------------------------------------------------------------------------
(* Claims about the life of a Metadata Record (specification Spec).        *)

\* records an analysis of the file under the key would give now
C15_RecordsOf(key) ==
    {MetadataRecord(analyze_with_llm(analyze(key, fs, now), llm)) :
         llm \in LlmOutcomes(ollama_available)}

\* C15: metadata records are never dropped implicitly.  In every step the
\* set of keys of the metadata map only grows, and a record that changes is
\* the record of a successful analysis of the file it is keyed by.
C15_RecordsNeverDropped ==
    [][/\ DOMAIN metadata \subseteq DOMAIN metadata'
       /\ \A key \in DOMAIN metadata :
              \/ metadata'[key] = metadata[key]
              \/ /\ analyze(key, fs, now) # None
                 /\ metadata'[key] \in C15_RecordsOf(key)
                 /\ last_ret' = "analysis"]_vars

\* a record written after the edit stands next to one written before it
C15_Witness ==
    /\ {P_A, P_A_DOT} \subseteq DOMAIN metadata
    /\ metadata[P_A_DOT].content_hash = Md5(InitialContent)
    /\ metadata[P_A].content_hash # Md5(InitialContent)


---------------------------------------------------------------------------
(* The two analyzers (specification SpecAnalyze): a Python file or a       *)
(* TypeScript file is analyzed and the analysis indexed.                   *)

JsContents == UNION {[1..n -> {JsLines[i] : i \in 1..Len(JsLines)}] : n \in 0..MaxLines}

InitAnalyze ==
    /\ \/ \E c \in LlmContents :
              fs = [InitFiles EXCEPT ![EditedFile].content = c]
                       @@ (PathStr(P_TS) :> [present |-> TRUE, content |-> <<>>])
       \/ \E c \in JsContents :
              fs = InitFiles @@ (PathStr(P_TS) :> [present |-> TRUE, content |-> c])
    /\ now = 0
    /\ InitSys
    /\ InitWatch
    /\ InitBatch
    /\ errors = {}
    /\ last_ret = "init"
    /\ edits = 0
    /\ call = NoCall
    /\ ctor = "ready"
    /\ ollama_available = FALSE

\* the analysis step of process_file and its index_file call
AnalyzeFile(file_path) ==
    \E a \in {analyze(file_path, fs, now)} :
        /\ call' = [op |-> "analyze", input |-> file_path, analysis |-> a]
        /\ IF a = None
           THEN UNCHANGED <<file_collection, element_collection>>
           ELSE \E idx \in {index_file([files    |-> file_collection,
                                        elements |-> element_collection], a)} :
                    /\ file_collection' = idx.files
                    /\ element_collection' = idx.elements
        /\ UNCHANGED <<fs, now, metadata, disk, docs, errors, last_ret, edits,
                       watchvars, ctor, ollama_available, batchvars>>

NextAnalyze == \E p \in {P_A, P_TS} : AnalyzeFile(p)

SpecAnalyze == InitAnalyze /\ [][NextAnalyze]_vars

\* an analyzer returned an analysis
C16_Analyzed == call.op = "analyze" /\ call.analysis # None

\* the element-level documents of the file
C16_ElementDocs(file_path) ==
    {d \in element_collection : d.metadata.file_path = file_path}

\* C16: element identity is unique.  In every FileAnalysis of either
\* analyzer no two elements share (file_path, name, line_number), so that
\* index_file leaves one element document per element of the file.
C16_ElementIdentityUnique ==
    C16_Analyzed =>
        /\ \A i, j \in 1..Len(call.analysis.elements) :
               ElementId(call.analysis.elements[i]) = ElementId(call.analysis.elements[j])
                   => i = j
        /\ Cardinality(C16_ElementDocs(call.input)) = Len(call.analysis.elements)

\* C17: every element of every FileAnalysis, whatever its kind and
\* whichever analyzer produced it, has a complexity_score of at least 1.
C17_ComplexityLowerBound ==
    C16_Analyzed =>
        \A i \in 1..Len(call.analysis.elements) :
            call.analysis.elements[i].complexity_score >= 1


---------------------------------------------------------------------------
(* Complexity of a growing function body (specification SpecComplexity).   *)
(* call holds the body, the analyzer that scores it, the score, and where  *)
(* the last statement was added with the score before it.                  *)

MaxStatements == 3

\* the boolean chains of a condition: none, 'a and b', 'a or b or c',
\* '(a and b) or (c and d)' with its three chains
Conditions == {<<>>, <<2>>, <<3>>, <<2, 2, 2>>}

\* conditions in JavaScript text
JsConditions == {"a", "a && b", "a || b || c",
                 "a && b && c && d && e && f && g && h && i && j"}

\* statements that are no conditional branch
OtherStatements ==
    {Statement(kind, chains) : kind \in {"return", "for", "except"},
                               chains \in {<<>>, <<2>>}}

JsOtherLines == {"return a || b", "for (x of y) {", "}"}

Insert(seq, k, x) == SubSeq(seq, 1, k) \o <<x>> \o SubSeq(seq, k + 1, Len(seq))

\* the file a JavaScript function body stands in
JsFunction(body) == <<"function f() {">> \o body \o <<"}">>

\* the score the analyzer gives the function with the body
ComplexityOf(analyzer, body) ==
    IF analyzer = "grammar"
    THEN calculate_complexity(body)
    ELSE js_calculate_complexity(JsFunction(body), 1)

Scored(analyzer, body, k, kind, before) ==
    [op       |-> "complexity",
     analyzer |-> analyzer,
     body     |-> body,
     score    |-> ComplexityOf(analyzer, body),
     kind     |-> kind,
     at       |-> k,
     before   |-> before]

InitComplexity ==
    /\ fs = InitFiles
    /\ now = 0
    /\ InitSys
    /\ InitWatch
    /\ InitBatch
    /\ errors = {}
    /\ last_ret = "init"
    /\ edits = 0
    /\ \E analyzer \in {"grammar", "lexical"} :
           call = Scored(analyzer, <<>>, 0, "nothing", ComplexityOf(analyzer, <<>>))
    /\ ctor = "ready"
    /\ ollama_available = FALSE

\* one more conditional branch is written into the body and the function
\* scored again
AddBranch ==
    /\ Len(call.body) < MaxStatements
    /\ \E k \in 0..Len(call.body) :
           \/ /\ call.analyzer = "grammar"
              /\ \E cond \in Conditions :
                     call' = Scored("grammar",
                                    Insert(call.body, k, Statement("if", cond)),
                                    k + 1, "branch", call.score)
           \/ /\ call.analyzer = "lexical"
              /\ \E cond \in JsConditions :
                     call' = Scored("lexical",
                                    Insert(call.body, k, "if (" \o cond \o ") {"),
                                    k + 1, "branch", call.score)
    /\ UNCHANGED <<fs, now, sysvars, errors, last_ret, edits, watchvars, ctor,
                   ollama_available, batchvars>>

\* another statement is written into the body
AddStatement ==
    /\ Len(call.body) < MaxStatements
    /\ \E k \in 0..Len(call.body) :
           \/ /\ call.analyzer = "grammar"
              /\ \E stmt \in OtherStatements :
                     call' = Scored("grammar", Insert(call.body, k, stmt),
                                    k + 1, "statement", call.score)
           \/ /\ call.analyzer = "lexical"
              /\ \E line \in JsOtherLines :
                     call' = Scored("lexical", Insert(call.body, k, line),
                                    k + 1, "statement", call.score)
    /\ UNCHANGED <<fs, now, sysvars, errors, last_ret, edits, watchvars, ctor,
                   ollama_available, batchvars>>

NextComplexity == AddBranch \/ AddStatement

SpecComplexity == InitComplexity /\ [][NextComplexity]_vars


\* a conditional branch was added to the body last
C18_BranchAdded == call.op = "complexity" /\ call.kind = "branch"

\* (operand_count - 1) summed over the boolean chains of a condition
C18_ChainsOf(chains) ==
    LET RECURSIVE Sum(_)
        Sum(i) == IF i > Len(chains) THEN 0 ELSE (chains[i] - 1) + Sum(i + 1)
    IN  Sum(1)

C18_WitnessGrammar ==
    /\ C18_BranchAdded
    /\ call.analyzer = "grammar"
    /\ Len(call.body[call.at].chains) = 3
    /\ call.before > 1
    /\ call.score = call.before + 4


---------------------------------------------------------------------------
(* Search: SemanticIndexer.search and the entry points of the MCP server   *)
(* (src/mcp_server/server.py), specification SpecSearch.                   *)

\* filter_type: Optional[str] = None
NoFilter == [given |-> FALSE]

FilterType(value) == [given |-> TRUE, value |-> value]

\* intent_prefixes of _enhance_query
intent_prefixes ==
    [intent \in {"find_similar", "understand_dependencies", "check_patterns",
                 "find_file", "understand_architecture"} |->
        CASE intent = "find_similar"            -> "similar implementation code function "
          [] intent = "understand_dependencies" -> "dependencies imports uses "
          [] intent = "check_patterns"          -> "pattern architecture design "
          [] intent = "find_file"               -> "file module purpose "
          [] intent = "understand_architecture" -> "architecture design pattern structure "]

\* _enhance_query that hands the query on as it came
enhance_query_plain(query, intent) == query

\* _enhance_query(query, intent): intent_prefixes.get(intent, query)
enhance_query(query, intent) ==
    IF intent \in DOMAIN intent_prefixes
    THEN intent_prefixes[intent] \o query
    ELSE query

\* the call search makes on the vector store: collection.query(
\* query_texts=[enhanced_query], n_results=limit, where=... or None)
search_request(query, intent, filter_type, limit) ==
    [collection  |-> IF intent \in {"find_file", "understand_architecture"}
                     THEN "file_overviews" ELSE "code_elements",
     query_texts |-> <<enhance_query(query, intent)>>,
     n_results   |-> limit,
     where       |-> IF filter_type.given /\ filter_type.value # ""
                     THEN [type |-> filter_type.value]
                     ELSE None]

\* the documents of a collection a where clause lets through
Matching(collection, where) ==
    IF where = None THEN collection
    ELSE {d \in collection :
              "type" \in DOMAIN d.metadata /\ d.metadata.type = where.type}

RECURSIVE Listed(_)
Listed(documents) ==
    IF documents = {} THEN <<>>
    ELSE <<Pick(documents)>> \o Listed(documents \ {Pick(documents)})

\* what collection.query does: it raises, or answers with n_results of the
\* matching documents (all of them when there are fewer)
StoreAnswers(idx, request) ==
    LET collection == IF request.collection = "file_overviews"
                      THEN idx.files ELSE idx.elements
        matching   == Matching(collection, request.where)
    IN  {[raised |-> TRUE, documents |-> <<>>]}
        \cup {[raised |-> FALSE, documents |-> Listed(hits)] :
                 hits \in {h \in SUBSET matching :
                              Cardinality(h) = Min(request.n_results,
                                                   Cardinality(matching))}}

\* the document text of an indexed document
DocumentText(doc) ==
    IF Len(doc.text) = 2 THEN doc.text[1] ELSE doc.text[1] \o " " \o doc.text[2]

\* search(query, intent, filter_type, limit), answer being what the store
\* does with the request: the formatted results, or the exception
search(query, intent, filter_type, limit, answer) ==
    IF answer.raised
    THEN [raised |-> TRUE, results |-> <<>>]
    ELSE [raised  |-> FALSE,
          results |-> [i \in 1..Len(answer.documents) |->
                          [id       |-> answer.documents[i].id,
                           metadata |-> answer.documents[i].metadata,
                           distance |-> 0,
                           document |-> DocumentText(answer.documents[i])]]]

\* SemanticIndexer.find_similar_code(description, limit)
indexer_find_similar_code(description, limit, answer) ==
    search(description, "find_similar", NoFilter, limit, answer)

\* get_dependencies that returns what the search found, unfiltered
get_dependencies_unfiltered(target, answer) ==
    search(target, "understand_dependencies", NoFilter, 10, answer)

\* SemanticIndexer.get_dependencies(target): the results whose document
\* holds the target
get_dependencies(target, answer) ==
    LET r == search(target, "understand_dependencies", NoFilter, 10, answer)
    IN  IF r.raised THEN r
        ELSE [raised  |-> FALSE,
              results |-> SelectSeq(r.results,
                                    LAMBDA x : Contains(x.document, target))]

\* search_docs with no except clause: the exception leaves the entry point
search_docs_uncaught(query, limit, answer) ==
    LET r == search(query, "general", NoFilter, limit, answer)
    IN  IF r.raised
        THEN [status |-> "raised"]
        ELSE [status        |-> "success",
              query         |-> query,
              results_count |-> Len(r.results),
              results       |-> [i \in 1..Len(r.results) |->
                                    [file |-> r.results[i].metadata.file_path,
                                     type |-> r.results[i].metadata.type,
                                     name |-> r.results[i].metadata.name,
                                     line |-> r.results[i].metadata.line_number]]]

\* DocumentationMCPServer.search_docs(query, limit)
search_docs(query, limit, answer) ==
    LET r == search(query, "general", NoFilter, limit, answer)
    IN  IF r.raised
        THEN [status |-> "error", error |-> "query failed", results |-> <<>>]
        ELSE [status        |-> "success",
              query         |-> query,
              results_count |-> Len(r.results),
              results       |-> [i \in 1..Len(r.results) |->
                                    [file |-> r.results[i].metadata.file_path,
                                     type |-> r.results[i].metadata.type,
                                     name |-> r.results[i].metadata.name,
                                     line |-> r.results[i].metadata.line_number]]]

\* DocumentationMCPServer.find_similar_code(description, limit)
find_similar_code(description, limit, answer) ==
    LET r == indexer_find_similar_code(description, limit, answer)
    IN  IF r.raised
        THEN [status |-> "error", error |-> "query failed",
              similar_implementations |-> <<>>]
        ELSE [status      |-> "success",
              description |-> description,
              found       |-> Len(r.results),
              similar_implementations |->
                  [i \in 1..Len(r.results) |->
                      [name       |-> r.results[i].metadata.name,
                       type       |-> r.results[i].metadata.type,
                       file       |-> r.results[i].metadata.file_path,
                       line       |-> r.results[i].metadata.line_number,
                       complexity |-> r.results[i].metadata.complexity,
                       has_docs   |-> r.results[i].metadata.has_docstring]]]

\* DocumentationMCPServer.check_dependencies(target): the dependencies
\* grouped by file
check_dependencies(target, answer) ==
    LET r == get_dependencies(target, answer)
    IN  IF r.raised
        THEN [status |-> "error", error |-> "query failed",
              dependencies |-> EmptyMap]
        ELSE LET files == {r.results[i].metadata.file_path : i \in 1..Len(r.results)}
             IN  [status         |-> "success",
                  target         |-> target,
                  files_affected |-> Cardinality(files),
                  dependencies   |->
                      [f \in files |->
                          SelectSeq([i \in 1..Len(r.results) |->
                                        [element |-> r.results[i].metadata.name,
                                         type    |-> r.results[i].metadata.type,
                                         line    |-> r.results[i].metadata.line_number,
                                         file    |-> r.results[i].metadata.file_path]],
                                    LAMBDA x : x.file = f)]]

Queries == {"f", "g"}

Intents == {"general", "find_similar", "understand_dependencies", "check_patterns",
            "find_file", "understand_architecture", "explain"}

FilterTypes == {NoFilter, FilterType(""), FilterType("class")}

Limits == {1, 10}

CurrentIndex == [files |-> file_collection, elements |-> element_collection]

\* a caller of the indexer (the CLI's search command) calls search
Search(query, intent, filter_type, limit) ==
    \E request \in {search_request(query, intent, filter_type, limit)} :
      \E answer \in StoreAnswers(CurrentIndex, request) :
        /\ call' = [op      |-> "search",
                    query   |-> query,
                    intent  |-> intent,
                    filter  |-> filter_type,
                    limit   |-> limit,
                    request |-> request,
                    raised  |-> answer.raised,
                    result  |-> search(query, intent, filter_type, limit, answer)]
        /\ UNCHANGED <<fs, now, sysvars, errors, last_ret, edits, watchvars, ctor,
                       ollama_available, batchvars>>

\* an MCP client calls one of the three search entry points
EntryPoint(op, query, limit) ==
    \E request \in {IF op = "search_docs"
                    THEN search_request(query, "general", NoFilter, limit)
                    ELSE IF op = "find_similar_code"
                    THEN search_request(query, "find_similar", NoFilter, limit)
                    ELSE search_request(query, "understand_dependencies", NoFilter, 10)} :
      \E answer \in StoreAnswers(CurrentIndex, request) :
        /\ call' = [op      |-> op,
                    query   |-> query,
                    request |-> request,
                    raised  |-> answer.raised,
                    result  |-> IF op = "search_docs"
                                THEN search_docs(query, limit, answer)
                                ELSE IF op = "find_similar_code"
                                THEN find_similar_code(query, limit, answer)
                                ELSE check_dependencies(query, answer)]
        /\ errors' = IF answer.raised
                     THEN errors \cup {[op |-> op, path |-> <<>>]}
                     ELSE errors
        /\ UNCHANGED <<fs, now, sysvars, last_ret, edits, watchvars, ctor,
                       ollama_available, batchvars>>

SearchDocs(query, limit) == EntryPoint("search_docs", query, limit)

FindSimilarCode(description, limit) == EntryPoint("find_similar_code", description, limit)

CheckDependencies(target) == EntryPoint("check_dependencies", target, 10)

\* the files processed before and between the searches
SearchedFiles == {P_A, P_A_DOT}

\* the system is up, the LLM is not
InitSearch ==
    /\ fs = InitFiles
    /\ now = 0
    /\ InitSys
    /\ InitWatch
    /\ InitBatch
    /\ errors = {}
    /\ last_ret = "init"
    /\ edits = 0
    /\ call = NoCall
    /\ ctor = "ready"
    /\ ollama_available = FALSE

NextSearch ==
    \/ \E p \in SearchedFiles : ProcessFile(p)
    \/ \E query \in Queries, intent \in Intents, filter_type \in FilterTypes,
          limit \in Limits : Search(query, intent, filter_type, limit)
    \/ \E query \in Queries, limit \in Limits : SearchDocs(query, limit)
    \/ \E description \in Queries, limit \in Limits : FindSimilarCode(description, limit)
    \/ \E target \in Queries : CheckDependencies(target)

SpecSearch == InitSearch /\ [][NextSearch]_vars

\* the result collection of an entry point's result
C19_Collection(op, result) ==
    IF op = "search_docs" THEN result.results
    ELSE IF op = "find_similar_code" THEN result.similar_implementations
    ELSE result.dependencies

\* C19: when the vector-store query raises, search_docs, find_similar_code
\* and check_dependencies return a result with status = error and an empty
\* result collection, and the call leaves the index and the metadata as
\* they were.
C19_QueryFailureIsError ==
    [][(/\ call' # call
        /\ call'.op \in {"search_docs", "find_similar_code", "check_dependencies"}
        /\ call'.raised)
           => /\ call'.result.status = "error"
              /\ Len(C19_Collection(call'.op, call'.result)) = 0
              /\ UNCHANGED sysvars]_vars

\* the query of check_dependencies raised on an index that holds documents
C19_Witness ==
    /\ call.op = "check_dependencies"
    /\ call.raised
    /\ call.result.status = "error"
    /\ element_collection # {}

\* C20: search queries the file-level collection exactly when the intent is
\* find_file or understand_architecture and the element-level collection
\* otherwise; it sends the prefix of the intent followed by the query for the
\* five known intents and the query as it came otherwise; it passes a
\* metadata filter only when filter_type is given.
C20_IntentRouting ==
    call.op = "search" =>
        /\ call.request.collection =
               (IF call.intent \in {"find_file", "understand_architecture"}
                THEN "file_overviews" ELSE "code_elements")
        /\ call.request.query_texts =
               <<IF call.intent \in {"find_similar", "understand_dependencies",
                                     "check_patterns", "find_file",
                                     "understand_architecture"}
                 THEN intent_prefixes[call.intent] \o call.query
                 ELSE call.query>>
        /\ call.request.where # None =>
               (call.filter.given /\ call.request.where = [type |-> call.filter.value])
        /\ ~call.filter.given => call.request.where = None

\* a find_file search with a filter went to the file-level collection
C20_Witness ==
    /\ call.op = "search"
    /\ call.intent = "find_file"
    /\ call.filter = FilterType("class")
    /\ call.request.collection = "file_overviews"
    /\ call.request.where # None
    /\ file_collection # {}

---------------------------------------------------------------------------
(* Queries over an index of several elements (specification SpecQuery):    *)
(* the file holds two functions, g and f, and is indexed under the two     *)
(* spellings of its path; the store ranks the documents in any order.      *)

\* every order of a set of documents
RECURSIVE Rankings(_)
Rankings(documents) ==
    IF documents = {} THEN {<<>>}
    ELSE UNION {{<<d>> \o r : r \in Rankings(documents \ {d})} : d \in documents}

\* the collection a request goes to
RequestedCollection(idx, request) ==
    IF request.collection = "file_overviews" THEN idx.files ELSE idx.elements

\* the sets of n_results matching documents (all of them when there are fewer)
Hits(matching, n_results) ==
    {h \in SUBSET matching : Cardinality(h) = Min(n_results, Cardinality(matching))}

\* what collection.query does when nothing is known of its ranking: it
\* raises, or answers with n_results of the matching documents in some order
collection_query_any(idx, request) ==
    {[raised |-> TRUE, documents |-> <<>>]}
    \cup {[raised |-> FALSE, documents |-> r] :
             r \in UNION {Rankings(h) :
                             h \in Hits(Matching(RequestedCollection(idx, request),
                                                 request.where),
                                        request.n_results)}}

\* collection.query of a store whose ranking is a function of the stored
\* documents and the request: the first n_results of the matching documents
\* in the store's order
collection_query(idx, request) ==
    {[raised    |-> FALSE,
      documents |-> SubSeq(Listed(Matching(RequestedCollection(idx, request),
                                           request.where)),
                           1,
                           Min(request.n_results,
                               Cardinality(Matching(RequestedCollection(idx, request),
                                                    request.where))))]}

\* the ids of the results of a search, in their order
ResultIds(results) == [i \in DOMAIN results |-> results[i].id]

\* what a search call leaves for the next one to be compared with
SearchRecord(c) ==
    [query |-> c.query, intent |-> c.intent, filter |-> c.filter, limit |-> c.limit,
     index |-> c.index, ids |-> c.ids]

\* a caller of the indexer calls search on the store with the fixed ranking;
\* the call is recorded with the index it ran against and the search call
\* made before it
RankedSearch(query, intent, filter_type, limit) ==
    \E answer \in collection_query(
                      CurrentIndex, search_request(query, intent, filter_type, limit)) :
        /\ call' = [op     |-> "ranked_search",
                    query  |-> query,
                    intent |-> intent,
                    filter |-> filter_type,
                    limit  |-> limit,
                    index  |-> CurrentIndex,
                    raised |-> answer.raised,
                    ids    |-> ResultIds(search(query, intent, filter_type, limit,
                                                answer).results),
                    prev   |-> IF call.op = "ranked_search"
                               THEN SearchRecord(call) ELSE None]
        /\ UNCHANGED <<fs, now, sysvars, errors, last_ret, edits, watchvars, ctor,
                       ollama_available, batchvars>>

\* a caller of the indexer calls get_dependencies(target); searched is what
\* the search inside the call returned
GetDependencies(target) ==
    \E answer \in collection_query_any(
                      CurrentIndex,
                      search_request(target, "understand_dependencies", NoFilter, 10)) :
        /\ call' = [op       |-> "get_dependencies",
                    target   |-> target,
                    raised   |-> answer.raised,
                    searched |-> search(target, "understand_dependencies", NoFilter,
                                        10, answer).results,
                    result   |-> get_dependencies(target, answer)]
        /\ UNCHANGED <<fs, now, sysvars, errors, last_ret, edits, watchvars, ctor,
                       ollama_available, batchvars>>

\* one intent for each of the two collections
RankedIntents == {"general", "find_file"}

QueriedContent == <<"def_g", "def_f">>

InitQuery ==
    /\ fs = [f \in Files |-> [present |-> TRUE, content |-> QueriedContent]]
    /\ now = 0
    /\ InitSys
    /\ InitWatch
    /\ InitBatch
    /\ errors = {}
    /\ last_ret = "init"
    /\ edits = 0
    /\ call = NoCall
    /\ ctor = "ready"
    /\ ollama_available = FALSE

NextQuery ==
    \/ \E p \in SearchedFiles : ProcessFile(p)
    \/ \E target \in Queries : GetDependencies(target)
    \/ \E query \in Queries, intent \in RankedIntents, filter_type \in FilterTypes,
          limit \in Limits : RankedSearch(query, intent, filter_type, limit)

SpecQuery == InitQuery /\ [][NextQuery]_vars

\* f maps the places of the returned results to the places they hold in the
\* searched results, keeping their order
C21_OrderKept(f, returned, searched) ==
    /\ \A i \in DOMAIN returned : returned[i] = searched[f[i]]
    /\ \A i, j \in DOMAIN returned : i < j => f[i] < f[j]

\* C21: get_dependencies(target) returns, in the same relative order, exactly
\* the results of search(target, intent = understand_dependencies) whose
\* document text contains target: every returned result contains target and
\* no result of the search that contains target is left out.
C21_DependentsAreFiltered ==
    (call.op = "get_dependencies" /\ ~call.raised) =>
        /\ ~call.result.raised
        /\ \A i \in DOMAIN call.result.results :
               Contains(call.result.results[i].document, call.target)
        /\ \E f \in [DOMAIN call.result.results -> DOMAIN call.searched] :
               /\ C21_OrderKept(f, call.result.results, call.searched)
               /\ \A j \in DOMAIN call.searched :
                      Contains(call.searched[j].document, call.target)
                          => \E i \in DOMAIN f : f[i] = j

\* the search found four elements, the first of them without the target,
\* and two of the four were returned
C21_Witness ==
    /\ call.op = "get_dependencies"
    /\ call.target = "g"
    /\ Len(call.searched) = 4
    /\ ~Contains(call.searched[1].document, "g")
    /\ Len(call.result.results) = 2

\* the last two search calls had the same inputs and ran against the same
\* index
C22_SameSearch ==
    /\ call.op = "ranked_search"
    /\ call.prev # None
    /\ call.prev.query = call.query
    /\ call.prev.intent = call.intent
    /\ call.prev.filter = call.filter
    /\ call.prev.limit = call.limit
    /\ call.prev.index = call.index

---------------------------------------------------------------------------
(* CodeAnalyzer over named sources (specification SpecCodeAnalyzer): a     *)
(* Python source with a file name and up to MaxLines lines is analyzed.    *)

SourceNames == {"a.py", "test_a.py", "a_test.py", "config.py", "utils.py",
                "test_config.py", "settings_helper.py"}

SourcePath(name) == <<"/", "proj", "src", name>>

SourceTokens == {"def_f", "class_f", "blank", "route_f", "model_f"} \cup FrameworkTokens

SourceContents == UNION {[1..n -> SourceTokens] : n \in 0..MaxLines}

InitCodeAnalyzer ==
    /\ fs = InitFiles
    /\ now = 0
    /\ InitSys
    /\ InitWatch
    /\ InitBatch
    /\ errors = {}
    /\ last_ret = "init"
    /\ edits = 0
    /\ call \in {[op |-> "source", file_path |-> SourcePath(name), content |-> content] :
                    name \in SourceNames, content \in SourceContents}
    /\ ctor = "ready"
    /\ ollama_available = FALSE

\* CodeAnalyzer.analyze_file on the source, read and parsed
AnalyzeSource ==
    /\ call.op = "source"
    /\ call' = [op        |-> "analyzed",
                file_path |-> call.file_path,
                content   |-> call.content,
                analysis  |-> analyze_content(call.file_path, call.content, now)]
    /\ UNCHANGED <<fs, now, sysvars, errors, last_ret, edits, watchvars, ctor,
                   ollama_available, batchvars>>

NextCodeAnalyzer == AnalyzeSource

SpecCodeAnalyzer == InitCodeAnalyzer /\ [][NextCodeAnalyzer]_vars

\* the file name of the analyzed source, without its extension
C23_Stem == PathStem(call.file_path)

C23_TestName == Contains(C23_Stem, "test_") \/ Contains(C23_Stem, "_test")

C23_ConfigName == Contains(C23_Stem, "config") \/ Contains(C23_Stem, "settings")

C23_UtilName == Contains(C23_Stem, "util") \/ Contains(C23_Stem, "helper")

\* C23: the purpose is that of the first rule that matches, in the order:
\* has routes, has model records, test file name, config file name, utility
\* file name, declaration counts, generic fallback.  A file with a route
\* record gets the routes purpose whatever else it holds and however it is
\* named; a file with no routes, no models, no matching name and no
\* declarations gets the fallback.
C23_PurposeFirstMatch ==
    call.op = "analyzed" =>
        /\ call.analysis.api_routes # <<>> =>
               StartsWith(call.analysis.purpose, "API endpoint definitions with ")
        /\ (call.analysis.api_routes = <<>> /\ call.analysis.database_models # <<>>) =>
               StartsWith(call.analysis.purpose, "Database models with ")
        /\ (call.analysis.api_routes = <<>> /\ call.analysis.database_models = <<>>) =>
               call.analysis.purpose =
                   (IF C23_TestName THEN "Test suite for unit/integration testing"
                    ELSE IF C23_ConfigName THEN "Configuration and settings management"
                    ELSE IF C23_UtilName THEN "Utility functions and helper methods"
                    ELSE IF call.analysis.elements # <<>>
                    THEN "Module with "
                             \o ToString(CountType(call.analysis.elements, "class"))
                             \o " classes and "
                             \o ToString(CountType(call.analysis.elements, "function"))
                             \o " functions"
                    ELSE "Python module")

\* a test file named after a configuration, holding a route and a model,
\* got the routes purpose
C23_Witness ==
    /\ call.op = "analyzed"
    /\ C23_TestName
    /\ C23_ConfigName
    /\ call.analysis.api_routes # <<>>
    /\ call.analysis.database_models # <<>>
    /\ call.analysis.purpose = "API endpoint definitions with 1 routes"

\* a file with nothing to go by got the fallback
C23_WitnessFallback ==
    /\ call.op = "analyzed"
    /\ call.file_path = SourcePath("a.py")
    /\ call.analysis.elements = <<>>
    /\ call.analysis.purpose = "Python module"

---------------------------------------------------------------------------
(* Claims about the enumeration of the batch (specification SpecBatch).    *)

\* the files on disk under src, a directory every call of the model names
C24_UnderSrc ==
    {ProjectFiles[i] : i \in {j \in 1..Len(ProjectFiles) :
                                 /\ fs[ProjectFiles[j]].present
                                 /\ IsPrefixSeq(P_SRC, ProjectFiles[j])}}

C24_Submitted == {tasks[i].path : i \in DOMAIN tasks}

\* C24: process_project submits to process_file every file under the given
\* directories that has a supported extension (.py, .js, .jsx, .ts, .tsx)
\* and for which should_process_file is true, and submits no file for which
\* should_process_file is false.
C24_EnumerationComplete ==
    (batch.state = "running" /\ \A i \in DOMAIN tasks : tasks[i].pc = "queued") =>
        /\ \A file_path \in C24_UnderSrc :
               (/\ PathSuffix(file_path) \in supported_extensions
                /\ should_process_file(file_path, metadata, fs))
                   => file_path \in C24_Submitted
        /\ \A file_path \in C24_Submitted :
               should_process_file(file_path, metadata, fs)

\* what holds of the enumeration: the .py files among them are submitted
C24_PythonFilesSubmitted ==
    (batch.state = "running" /\ \A i \in DOMAIN tasks : tasks[i].pc = "queued") =>
        /\ \A file_path \in C24_UnderSrc :
               (/\ PathSuffix(file_path) = ".py"
                /\ should_process_file(file_path, metadata, fs))
                   => file_path \in C24_Submitted
        /\ \A file_path \in C24_Submitted :
               should_process_file(file_path, metadata, fs)

---------------------------------------------------------------------------
(* Claims about the order of the steps of process_file (specification      *)
(* Spec).                                                                  *)

\* the file-level documents stored under the key of a Metadata Record
C25_FileDocs(fc, key) == {d \in fc : d.id = key}

\* the record of the key was written in this step
C25_Written(key) ==
    /\ key \in DOMAIN metadata'
    /\ key \notin DOMAIN metadata \/ metadata'[key] # metadata[key]

\* C25: index_file runs before the metadata write.  Starting from an empty
\* index and an empty metadata map, every file that has a Metadata Record
\* has a file-level document with id = its path, made from the analysis the
\* record was made from; and a record, when written, holds the hash of the
\* content that was analyzed and indexed in that call.
C25_IndexBeforeMetadata ==
    [][\A key \in DOMAIN metadata' :
           /\ \E d \in C25_FileDocs(file_collection', key) :
                  /\ d.metadata.purpose = metadata'[key].purpose
                  /\ d.metadata.last_analyzed = metadata'[key].last_analyzed
           /\ C25_Written(key) =>
                  /\ metadata'[key].content_hash = Md5(FileOf(key, fs).content)
                  /\ metadata'[key].elements_count =
                         Len(analyze(key, fs, now).elements)
                  /\ \A i \in 1..Len(analyze(key, fs, now).elements) :
                         \E e \in element_collection' :
                             e.id = ElementId(analyze(key, fs, now).elements[i])]_vars

\* a file was processed again after an edit: its record holds the hash of
\* the new content and its file-level document is in the index
C25_Witness ==
    /\ P_A \in DOMAIN metadata
    /\ edits = 1
    /\ metadata[P_A].content_hash = Md5(fs[P_A].content)
    /\ fs[P_A].content # InitialContent
    /\ C25_FileDocs(file_collection, P_A) # {}
    /\ last_ret = "analysis"


\* the call of task i got an analysis from the analyzer and went on to
\* index it
C26_Analyzed(i) ==
    \/ tasks[i].analysis # None
    \/ tasks[i].outcome = "analysis"

\* C26: within one process_project call each distinct file is analyzed and
\* indexed at most once, also when the directories overlap or repeat and
\* also in parallel mode, where two workers holding the same path both
\* evaluate should_process_file before either has written the record.
C26_AtMostOneAnalysis ==
    \A i, j \in DOMAIN tasks :
        (i # j /\ PathStr(tasks[i].path) = PathStr(tasks[j].path))
            => ~(C26_Analyzed(i) /\ C26_Analyzed(j))

\* what holds: in sequential mode a file whose first call succeeded is
\* skipped by the later calls of the batch
C26_SequentialSkips ==
    ~batch.parallel =>
        \A i, j \in DOMAIN tasks :
            (i < j /\ tasks[i].path = tasks[j].path
                   /\ tasks[i].outcome = "analysis" /\ tasks[j].pc = "done")
                => tasks[j].outcome = "skipped"

---------------------------------------------------------------------------
(* process_file on files in several places (specification SpecPlaces):    *)
(* a.py in src, a.py in lib, and a.py outside the project root, for which  *)
(* relative_to(project_root) in _generate_documentation raises ValueError. *)

P_OUT == <<"/", "other", "a.py">>

P_LIB_A == <<"/", "proj", "lib", "a.py">>

ProcessedPlaces == {P_A, P_LIB_A, P_OUT}

InitPlaces ==
    /\ fs = InitFiles
                @@ (PathStr(P_OUT) :> [present |-> TRUE, content |-> <<"def_g">>])
                @@ (PathStr(P_LIB_A) :> [present |-> TRUE, content |-> <<"class_f">>])
    /\ now = 0
    /\ InitSys
    /\ InitWatch
    /\ InitBatch
    /\ errors = {}
    /\ last_ret = "init"
    /\ edits = 0
    /\ call = NoCall
    /\ ctor = "ready"
    /\ ollama_available = TRUE

NextPlaces ==
    \/ EditFile
    \/ \E p \in ProcessedPlaces : ProcessFile(p)

SpecPlaces == InitPlaces /\ [][NextPlaces]_vars

\* C27: process_file is all-or-nothing with respect to the index and the
\* metadata.  When a step after the analysis raises, the index collections
\* and the metadata map are as they were before the call, and in no
\* reachable state does the index hold a file's documents while the file
\* has no Metadata Record.
C27_AllOrNothing ==
    [][/\ last_ret' = "raise" =>
              UNCHANGED <<metadata, file_collection, element_collection>>
       /\ \A d \in file_collection' : d.id \in DOMAIN metadata']_vars

\* what holds: a call that raises leaves the metadata map and the metadata
\* file as they were
C27_MetadataKept ==
    [][last_ret' = "raise" => UNCHANGED <<metadata, disk, docs>>]_vars


\* docs/files/<stem>.md of the file stored under the key
C28_DocOf(key) == DocName([file_path |-> key])

\* C28: generated documentation is per file.  After any sequence of
\* successful process_file calls every tracked file has its own generated
\* documentation file, whose content is that of the file's analysis;
\* processing one file never overwrites the documentation of another
\* tracked file, two files of one base name in different directories
\* included.
C28_DocumentationPerFile ==
    \A key \in DOMAIN metadata :
        /\ C28_DocOf(key) \in DOMAIN docs
        /\ PathStr(docs[C28_DocOf(key)].file_path) = PathStr(key)

\* what holds: every tracked file has a documentation file under its stem,
\* written by the last successful call on a file of that stem
C28_DocumentationPerStem ==
    \A key \in DOMAIN metadata :
        /\ C28_DocOf(key) \in DOMAIN docs
        /\ docs[C28_DocOf(key)].file_path \in DOMAIN metadata
        /\ PathStem(docs[C28_DocOf(key)].file_path) = PathStem(key)


\* the route a declaration of the model declares: its method (a verb for
\* the @app.<verb> / @router.<verb> family, the list of methods for the
\* .route family), path and handler
C29_Declared(tok, line) ==
    [method      |-> CASE tok = "route_f"     -> "GET"
                       [] tok = "router_f"    -> "POST"
                       [] tok = "flask_f"     -> <<"GET">>
                       [] tok = "blueprint_f" -> <<"POST">>,
     path        |-> "/f",
     handler     |-> "f",
     line_number |-> line]

\* the route records of the function declared on the line
C29_RoutesOf(line) ==
    {i \in 1..Len(call.analysis.api_routes) :
         call.analysis.api_routes[i].line_number = line}

\* C29: for every function decorated with a route declaration
\* _detect_api_routes yields exactly one route record: {method: VERB, path,
\* handler} for @app.<verb>(path) and @router.<verb>(path) with verb in get,
\* post, put, delete, patch, and {method: list of the declared methods,
\* default ['GET'], path, handler} for @app.route(path) and
\* @blueprint.route(path).
C29_RouteDetection ==
    call.op = "analyzed" =>
        \A line \in 1..Len(call.content) :
            call.content[line] \in RouteTokens =>
                /\ Cardinality(C29_RoutesOf(line)) = 1
                /\ \A i \in C29_RoutesOf(line) :
                       call.analysis.api_routes[i]
                           = C29_Declared(call.content[line], line)

\* what holds: the verb family is detected, and a @blueprint.route
\* declaration gives one record with its path and handler
C29_VerbRoutesDetected ==
    call.op = "analyzed" =>
        \A line \in 1..Len(call.content) :
            /\ call.content[line] \in {"route_f", "router_f"} =>
                   /\ Cardinality(C29_RoutesOf(line)) = 1
                   /\ \A i \in C29_RoutesOf(line) :
                          call.analysis.api_routes[i]
                              = C29_Declared(call.content[line], line)
            /\ call.content[line] = "blueprint_f" =>
                   /\ Cardinality(C29_RoutesOf(line)) = 1
                   /\ \A i \in C29_RoutesOf(line) :
                          /\ call.analysis.api_routes[i].path = "/f"
                          /\ call.analysis.api_routes[i].handler = "f"

\* the class a declaration of the model derives from belongs to this
\* framework
C30_Framework(tok) ==
    CASE tok = "model_f"    -> "sqlalchemy"
      [] tok = "pydantic_f" -> "pydantic"
      [] tok = "alias_f"    -> "pydantic"
      [] tok = "django_f"   -> "django"
      [] tok = "mixin_f"    -> "unknown"

C30_ModelsOf(line) ==
    {i \in 1..Len(call.analysis.database_models) :
         call.analysis.database_models[i].line_number = line}

\* C30: for a class whose base name triggers model detection,
\* _identify_model_type returns 'django' for models.Model and django bases,
\* 'sqlalchemy' for the declarative Base and sqlalchemy bases, 'pydantic'
\* for BaseModel and pydantic bases, and 'unknown' otherwise; a class
\* deriving from BaseModel is reported as pydantic.
C30_ModelTypes ==
    call.op = "analyzed" =>
        \A line \in 1..Len(call.content) :
            call.content[line] \in ModelTokens =>
                /\ C30_ModelsOf(line) # {}
                /\ \A i \in C30_ModelsOf(line) :
                       call.analysis.database_models[i].type
                           = C30_Framework(call.content[line])

\* what holds: every class of the model tokens gives one model record, and
\* the classes not derived from BaseModel get the type of their framework
C30_OtherModelTypes ==
    call.op = "analyzed" =>
        \A line \in 1..Len(call.content) :
            call.content[line] \in ModelTokens =>
                /\ Cardinality(C30_ModelsOf(line)) = 1
                /\ \A i \in C30_ModelsOf(line) :
                       call.content[line] # "pydantic_f" =>
                           call.analysis.database_models[i].type
                               = C30_Framework(call.content[line])

=============================================================================
